---- MODULE Spec2Model ----
(***************************************************************************)
(* Model of the Confluence export converter: the XML ingestion of          *)
(* xmlprocessor.py (entity store, version consolidation, alias table),     *)
(* the attachment copier of attachmentprocessor.py and the link rule chain *)
(* of converter.py (_process_link).                                        *)
(*                                                                         *)
(* Text is a sequence of tokens.  A token is a piece of text that no       *)
(* operation of the program splits: a path separator "/", a dot ".", a     *)
(* run of digits "789", a word "Manual".  Python's None is the token       *)
(* NoneVal where a string is expected, NoneDict where a dict is expected   *)
(* and NoneText (what an f-string prints for it) where a text is expected; *)
(* a raised exception is the value Raised.                                 *)
(*                                                                         *)
(* A Python dict whose iteration order the program relies on is a record   *)
(* [ord, map]: ord lists the keys in insertion order, map is the mapping.  *)
(***************************************************************************)
EXTENDS Integers, Sequences, FiniteSets, TLC

VARIABLES
    nread,                  \* Page/BlogPost records read from XML files so far
    config,                 \* Config: the flags the modelled code reads
    xml_processor,          \* XmlProcessor: the entity store
    stats,                  \* ConversionStats counters of the XML phase
    attachment_processor,   \* AttachmentProcessor: mapping tables
    disk,                   \* the files of the file system: path -> [size, mtime]
    run,                    \* the runs of the attachment phase: number, copies, tables
    call                    \* the last operation performed, its inputs and its result

vars == <<nread, config, xml_processor, stats, attachment_processor, disk, run, call>>

----------------------------------------------------------------------------
\* Bounds of the model.

\* greatest hibernateVersion of a record in an XML file
MaxHV == 2
\* number of Page/BlogPost records in all XML files read in one run
MaxRecs == 3
\* number of add_xml_file calls in one run
MaxCalls == 2
\* number of XML export files on disk
MaxPaths == 2
\* number of attachment files under the input folders
MaxFiles == 2
\* greatest size and greatest modification time of an input file
MaxStat == 2
\* number of runs of the attachment phase on one output folder
MaxRuns == 2

\* the subfolders of the input folder that main's attachment loop visits
MaxSubfolders == 2

\* the length of the names handed to _sanitize_filename
MaxLen == 3

\* the links _fix_md_crosslinks resolves in a run of main
MaxLinks == 2

----------------------------------------------------------------------------
\* Python values.

NoneVal == "None"
NoneDict == [none |-> TRUE]
NoneText == <<NoneVal>>
Raised == <<"<raised>">>

EmptyDict == [ord |-> <<>>, map |-> <<>>]

HasKey(d, k) == k \in DOMAIN d.map

\* d[k] = v
Put(d, k, v) ==
    [ord |-> IF HasKey(d, k) THEN d.ord ELSE Append(d.ord, k),
     map |-> (k :> v) @@ d.map]

\* plain mapping (iteration order not used): m[k] = v
Set(m, k, v) == (k :> v) @@ m

\* del m[k]
Del(m, k) == [j \in (DOMAIN m) \ {k} |-> m[j]]

\* m.get(k), None when absent: of a mapping to strings
Get(m, k) == IF k \in DOMAIN m THEN m[k] ELSE NoneVal

\* d[k] of a dict whose values are texts: KeyError when absent
Subscript(d, k) == IF k \in DOMAIN d THEN d[k] ELSE Raised

\* m.get(k), None when absent: of a mapping to dicts
GetDict(m, k) == IF k \in DOMAIN m THEN m[k] ELSE NoneDict

StartsWith(s, p) == Len(s) >= Len(p) /\ SubSeq(s, 1, Len(p)) = p

EndsWith(s, p) == Len(s) >= Len(p) /\ SubSeq(s, Len(s) - Len(p) + 1, Len(s)) = p

\* p in s (substring)
Contains(s, p) == \E i \in 1..(Len(s) - Len(p) + 1) : SubSeq(s, i, i + Len(p) - 1) = p

\* the position of the first occurrence of p in s, 0 when there is none
Find(s, p) ==
    IF Contains(s, p)
    THEN CHOOSE i \in 1..(Len(s) - Len(p) + 1) :
            /\ SubSeq(s, i, i + Len(p) - 1) = p
            /\ \A j \in 1..(i - 1) : SubSeq(s, j, j + Len(p) - 1) # p
    ELSE 0

----------------------------------------------------------------------------
\* Tokens.  Digit runs are the IDs of the export.

Digits ==
    {"1", "2", "3", "4", "5", "42", "789", "123", "456", "1234567", "7654321"}

IsDigits(t) == t \in Digits

----------------------------------------------------------------------------
\* xmlprocessor.py: filename and title sanitization.

\* urllib.parse.unquote, token by token
unquote(t) ==
    CASE t = "%20" -> " "
      [] t = "%2F" -> "/"
      [] t = "%3F" -> "?"
      [] OTHER -> t

\* unicodedata.normalize('NFKC', .): the no-break space becomes a space
nfkc(t) == IF t = "NBSP" THEN " " ELSE t

\* the characters is_valid_char rejects: the zero-width denylist and the
\* categories Cc, Cf, Co, Cs
is_valid_char(t) == t \notin {"ZWSP", "BOM", "TAB"}

\* INVALID_CHARS = [+/\\:*?&"<>|^\[\]], every match replaced by a dash
INVALID_CHARS == {"+", "/", "\\", ":", "*", "?", "&", "<", ">", "|", "^", "[", "]"}

replace_invalid(t) ==
    CASE t \in INVALID_CHARS -> "-"
      [] t = "<![CDATA[" -> "-!-CDATA-"
      [] t = "]]>" -> "---"
      [] OTHER -> t

MapSeq(s, Op(_)) == [i \in 1..Len(s) |-> Op(s[i])]

\* str.strip('. ')
strip_dots_spaces(s) ==
    LET keep == {i \in 1..Len(s) : s[i] \notin {".", " "}}
    IN  IF keep = {} THEN <<>>
        ELSE LET lo == CHOOSE i \in keep : \A j \in keep : i <= j
                 hi == CHOOSE i \in keep : \A j \in keep : i >= j
             IN  SubSeq(s, lo, hi)

_clean_cdata(text) ==
    IF text = <<>> THEN <<>>
    ELSE IF Len(text) >= 2 /\ text[1] = "<![CDATA[" /\ text[Len(text)] = "]]>"
         THEN SubSeq(text, 2, Len(text) - 1)
         ELSE text

space_to_underscore(t) == IF t = " " THEN "_" ELSE t

\* the steps of _sanitize_filename between the test of its input and the
\* test of its result: decoding, normalising, filtering, trimming, replacing
sanitize_steps(filename, cfg) ==
    LET decoded == MapSeq(filename, unquote)
        normal  == MapSeq(decoded, nfkc)
        valid   == SelectSeq(normal, is_valid_char)
        trimmed == strip_dots_spaces(valid)
        dashed  == MapSeq(trimmed, replace_invalid)
    IN  IF cfg.USE_UNDERSCORE_IN_FILENAMES
        THEN MapSeq(dashed, space_to_underscore)
        ELSE dashed

\* "if not filename: return self._clean_cdata(original_filename)"
sanitized_or_original(original_filename, filename) ==
    IF filename = <<>> THEN _clean_cdata(original_filename)
    ELSE _clean_cdata(filename)

_sanitize_filename(filename, cfg) ==
    IF filename = <<>> THEN <<"unnamed">>
    ELSE sanitized_or_original(filename, sanitize_steps(filename, cfg))


----------------------------------------------------------------------------
\* xmlprocessor.py: the entity store and the extraction passes.
\*
\* An XML file is a record with one sequence per object class, each in
\* document order (what root.findall returns):
\*   spaces      [id, key, name, homePageId]              key, name: texts
\*   pages       [id, title, hv, status, space, parent]   class Page
\*   blogs       [id, title, hv, status, space, parent]   class BlogPost
\*   users       [id, name]
\*   comments    [id, container]
\*   bodies      [id, content, class]
\*   attachments [id, title, container, space]
\*   links       [id, source]
\*   labels      [id, name]
\*   labellings  [label, page]
\*   props       [id, page]
\* A missing element or empty text is "" (<<>> for a title).  Fields the
\* program only copies (dates, creator, version, description) are left out.

XmlProcessorInit ==
    [spaces |-> EmptyDict,
     page |-> EmptyDict,
     users |-> <<>>,
     attachments |-> EmptyDict,
     comments |-> EmptyDict,
     _space_by_key |-> <<>>,
     _page_by_title |-> <<>>,
     _page_by_title_space |-> <<>>,
     _label_by_id |-> <<>>,
     page_id_mapping |-> <<>>,
     processed_xml_files |-> {}]

_extract_users(x, root) ==
    LET step(users, o) ==
            IF o.id = "" \/ o.id \in DOMAIN users THEN users
            ELSE Set(users, o.id, [id |-> o.id, name |-> o.name])
        f[i \in 0..Len(root.users)] ==
            IF i = 0 THEN x.users ELSE step(f[i - 1], root.users[i])
    IN  [x EXCEPT !.users = f[Len(root.users)]]

_extract_spaces(x, root) ==
    LET step(spaces, o) ==
            IF o.id = "" THEN spaces
            ELSE Put(spaces, o.id,
                     [id |-> o.id, name |-> o.name, key |-> o.key,
                      homePageId |-> o.homePageId,
                      pageIds |-> {}, blogPostIds |-> {}])
        f[i \in 0..Len(root.spaces)] ==
            IF i = 0 THEN x.spaces ELSE step(f[i - 1], root.spaces[i])
    IN  [x EXCEPT !.spaces = f[Len(root.spaces)]]

\* the first Space object of the file that has an id, "" when there is none
first_space_id(root) ==
    LET with_id == SelectSeq(root.spaces, LAMBDA o : o.id # "")
    IN  IF with_id = <<>> THEN "" ELSE with_id[1].id

\* a first pass that lets the drafts through
skip_page_version_untitled(o) == o.title = <<>>

\* first pass over the Page objects
skip_page_version(o) == o.status = "draft" \/ o.title = <<>>

\* first pass over the BlogPost objects
skip_blog_version(o) ==
    o.id = "" \/ o.title = <<>> \/ o.status = "draft" \/ o.status = "deleted"

\* the id the first pass logs and maps: a Page without id is "unknown"
version_id(o) == IF o.id = "" THEN "unknown" ELSE o.id

\* a comparison that lets the last of several equal versions win
newer_version_or_equal(hv, best) == hv >= best

\* hibernate_version > page_versions[title][0]
newer_version(hv, best) == hv > best

skip_version(o, class) ==
    IF class = "Page" THEN skip_page_version(o) ELSE skip_blog_version(o)

\* First pass: [mapping, versions] after the loop over the objects of one
\* class.
collect_versions(mapping0, objs, class) ==
    LET step(acc, o) ==
            IF skip_version(o, class) THEN acc
            ELSE [mapping |-> Set(acc.mapping, version_id(o), version_id(o)),
                  versions |->
                      IF \/ ~HasKey(acc.versions, o.title)
                         \/ newer_version(o.hv, acc.versions.map[o.title].hv)
                      THEN Put(acc.versions, o.title, [hv |-> o.hv, obj |-> o])
                      ELSE acc.versions]
        f[i \in 0..Len(objs)] ==
            IF i = 0 THEN [mapping |-> mapping0, versions |-> EmptyDict]
            ELSE step(f[i - 1], objs[i])
    IN  f[Len(objs)]

\* a second pass that records no alias
map_title_to_itself(mapping0, objs, title, newest) == mapping0

\* Second pass, inner loop: every object of the class with this title and
\* an id is mapped to the newest id.
map_title_to_newest(mapping0, objs, title, newest) ==
    LET step(m, o) ==
            IF o.title # <<>> /\ o.title = title /\ o.id # ""
            THEN Set(m, o.id, newest) ELSE m
        f[i \in 0..Len(objs)] ==
            IF i = 0 THEN mapping0 ELSE step(f[i - 1], objs[i])
    IN  f[Len(objs)]

new_page(id, type, title, space_id, parent) ==
    [id |-> id, type |-> type, title |-> title, spaceId |-> space_id,
     parentId |-> parent, comments |-> <<>>, outgoingLinks |-> <<>>,
     labels |-> <<>>, pageProperties |-> <<>>, bodypage |-> NoneVal]

\* self.page[id] = page and both title indexes
store_page(x, pg) ==
    [x EXCEPT !.page = Put(@, pg.id, pg),
              !._page_by_title = Set(@, pg.title, pg.id),
              !._page_by_title_space = Set(@, <<pg.title, pg.spaceId>>, pg.id)]

_extract_page_item(x, o, page_type, space_id, cfg) ==
    IF o.id = "" THEN x
    ELSE LET title == _sanitize_filename(o.title, cfg)
             pg == new_page(o.id, page_type, title, space_id,
                            IF page_type = "Page" THEN o.parent ELSE "")
             x1 == IF HasKey(x.spaces, space_id)
                   THEN IF page_type = "Page"
                        THEN [x EXCEPT !.spaces.map[space_id].pageIds = @ \cup {o.id}]
                        ELSE [x EXCEPT !.spaces.map[space_id].blogPostIds = @ \cup {o.id}]
                   ELSE x
         IN  store_page(x1, pg)

_extract_blog_item(x, o, blog_type, cfg) ==
    IF o.id = "" THEN x
    ELSE IF o.space = "" THEN x
    ELSE LET title == _sanitize_filename(o.title, cfg)
             pg == new_page(o.id, blog_type, title, o.space, "")
             x1 == IF HasKey(x.spaces, o.space)
                   THEN [x EXCEPT !.spaces.map[o.space].blogPostIds = @ \cup {o.id}]
                   ELSE x
         IN  store_page(x1, pg)

\* Second pass over page_versions, in the order the titles were first seen.
map_highest_pages(x, root, versions, space_id, cfg) ==
    LET step(y, title) ==
            LET o == versions.map[title].obj
                m == map_title_to_newest(y.page_id_mapping, root.pages, title,
                                         version_id(o))
            IN  _extract_page_item([y EXCEPT !.page_id_mapping = m],
                                   o, "Page", space_id, cfg)
        f[i \in 0..Len(versions.ord)] ==
            IF i = 0 THEN x ELSE step(f[i - 1], versions.ord[i])
    IN  f[Len(versions.ord)]

map_highest_blogs(x, root, versions, cfg) ==
    LET step(y, title) ==
            LET o == versions.map[title].obj
                m == map_title_to_newest(y.page_id_mapping, root.blogs, title,
                                         version_id(o))
            IN  _extract_blog_item([y EXCEPT !.page_id_mapping = m],
                                   o, "BlogPost", cfg)
        f[i \in 0..Len(versions.ord)] ==
            IF i = 0 THEN x ELSE step(f[i - 1], versions.ord[i])
    IN  f[Len(versions.ord)]

_extract_pages(x, root, cfg) ==
    LET space_id == first_space_id(root)
    IN  IF space_id = "" THEN x
        ELSE LET p1 == collect_versions(x.page_id_mapping, root.pages, "Page")
                 b1 == collect_versions(p1.mapping, root.blogs, "BlogPost")
                 x1 == [x EXCEPT !.page_id_mapping = b1.mapping]
                 x2 == map_highest_pages(x1, root, p1.versions, space_id, cfg)
             IN  map_highest_blogs(x2, root, b1.versions, cfg)


_extract_comments(x, root) ==
    LET step(comments, o) ==
            IF o.id = "" THEN comments
            ELSE Put(comments, o.id,
                     [id |-> o.id, containerContentId |-> o.container,
                      bodypage |-> NoneVal])
        f[i \in 0..Len(root.comments)] ==
            IF i = 0 THEN x.comments ELSE step(f[i - 1], root.comments[i])
    IN  [x EXCEPT !.comments = f[Len(root.comments)]]

\* the (content_id, body) pairs of the BodyContent objects
_extract_body_page(root) ==
    SelectSeq(root.bodies, LAMBDA o : o.id # "" /\ o.content # "")

\* Returns [x, success, missing].
_apply_body_page_relations(x, relations) ==
    LET step(acc, b) ==
            IF b.class = "Comment"
            THEN IF HasKey(acc.x.comments, b.content)
                 THEN [acc EXCEPT !.x.comments.map[b.content].bodypage = b.id,
                                  !.success = @ + 1]
                 ELSE [acc EXCEPT !.missing = @ + 1]
            ELSE IF HasKey(acc.x.page, b.content)
                 THEN [acc EXCEPT !.x.page.map[b.content].bodypage = b.id,
                                  !.success = @ + 1]
                 ELSE [acc EXCEPT !.missing = @ + 1]
        f[i \in 0..Len(relations)] ==
            IF i = 0 THEN [x |-> x, success |-> 0, missing |-> 0]
            ELSE step(f[i - 1], relations[i])
    IN  f[Len(relations)]

_link_comments_to_pages(x) ==
    LET step(y, cid) ==
            LET container == y.comments.map[cid].containerContentId
            IN  IF container # "" /\ HasKey(y.page, container)
                THEN [y EXCEPT !.page.map[container].comments = Append(@, cid)]
                ELSE y
        f[i \in 0..Len(x.comments.ord)] ==
            IF i = 0 THEN x ELSE step(f[i - 1], x.comments.ord[i])
    IN  f[Len(x.comments.ord)]

_extract_attachments(x, root, cfg) ==
    LET step(atts, o) ==
            IF o.id = "" THEN atts
            ELSE Put(atts, o.id,
                     [id |-> o.id,
                      space_id |-> o.space,
                      title |-> IF o.title = <<>> THEN <<>>
                                ELSE _sanitize_filename(o.title, cfg),
                      containerContent_id |-> o.container])
        f[i \in 0..Len(root.attachments)] ==
            IF i = 0 THEN x.attachments ELSE step(f[i - 1], root.attachments[i])
    IN  [x EXCEPT !.attachments = f[Len(root.attachments)]]

_extract_outgoing_links(x, root) ==
    LET step(y, o) ==
            IF o.id # "" /\ o.source # "" /\ HasKey(y.page, o.source)
            THEN [y EXCEPT !.page.map[o.source].outgoingLinks = Append(@, o.id)]
            ELSE y
        f[i \in 0..Len(root.links)] ==
            IF i = 0 THEN x ELSE step(f[i - 1], root.links[i])
    IN  f[Len(root.links)]

\* a label dict that has a name only when the XML has one
new_label_sparse(o) ==
    IF o.name = <<>> THEN [id |-> o.id]
    ELSE [id |-> o.id, name |-> _clean_cdata(o.name)]

\* the label dict: "name" is "" when the XML has none
new_label(o) == [id |-> o.id, name |-> _clean_cdata(o.name)]

_extract_labels_and_labellings(x, root) ==
    LET lstep(labels, o) ==
            IF o.id = "" THEN labels
            ELSE Set(labels, o.id, new_label(o))
        lf[i \in 0..Len(root.labels)] ==
            IF i = 0 THEN x._label_by_id ELSE lstep(lf[i - 1], root.labels[i])
        x1 == [x EXCEPT !._label_by_id = lf[Len(root.labels)]]
        step(y, o) ==
            IF /\ o.label # "" /\ o.label \in DOMAIN y._label_by_id
               /\ o.page # "" /\ HasKey(y.page, o.page)
            THEN [y EXCEPT !.page.map[o.page].labels = Append(@, o.label)]
            ELSE y
        f[i \in 0..Len(root.labellings)] ==
            IF i = 0 THEN x1 ELSE step(f[i - 1], root.labellings[i])
    IN  f[Len(root.labellings)]

_extract_page_properties(x, root) ==
    LET step(y, o) ==
            IF o.id # "" /\ o.page # "" /\ HasKey(y.page, o.page)
            THEN [y EXCEPT !.page.map[o.page].pageProperties = Append(@, o.id)]
            ELSE y
        f[i \in 0..Len(root.props)] ==
            IF i = 0 THEN x ELSE step(f[i - 1], root.props[i])
    IN  f[Len(root.props)]

_build_helper_indexes(x) ==
    LET sstep(m, sid) ==
            IF x.spaces.map[sid].key # <<>> THEN Set(m, x.spaces.map[sid].key, sid)
            ELSE m
        sf[i \in 0..Len(x.spaces.ord)] ==
            IF i = 0 THEN x._space_by_key ELSE sstep(sf[i - 1], x.spaces.ord[i])
        pstep(m, pid) ==
            IF x.page.map[pid].title # <<>> THEN Set(m, x.page.map[pid].title, pid)
            ELSE m
        pf[i \in 0..Len(x.page.ord)] ==
            IF i = 0 THEN x._page_by_title ELSE pstep(pf[i - 1], x.page.ord[i])
    IN  [x EXCEPT !._space_by_key = sf[Len(x.spaces.ord)],
                  !._page_by_title = pf[Len(x.page.ord)]]

\* a marking step that does not skip a title that is marked already
_underscore_homepage_titles_again(x) ==
    LET step(y, sid) ==
            LET homepage_id == y.spaces.map[sid].homePageId
            IN  IF homepage_id = "" \/ ~HasKey(y.page, homepage_id) THEN y
                ELSE [y EXCEPT !.page.map[homepage_id].title = <<"_">> \o @]
        f[i \in 0..Len(x.spaces.ord)] ==
            IF i = 0 THEN x ELSE step(f[i - 1], x.spaces.ord[i])
    IN  f[Len(x.spaces.ord)]

_underscore_homepage_titles(x) ==
    LET step(y, sid) ==
            LET homepage_id == y.spaces.map[sid].homePageId
            IN  IF homepage_id = "" \/ ~HasKey(y.page, homepage_id) THEN y
                ELSE LET original_title == y.page.map[homepage_id].title
                         new_title == <<"_">> \o original_title
                         old_key == <<original_title, sid>>
                         new_key == <<new_title, sid>>
                     IN  IF StartsWith(original_title, <<"_">>) THEN y
                         ELSE [y EXCEPT
                                 !.page.map[homepage_id].title = new_title,
                                 !._page_by_title =
                                     IF original_title \in DOMAIN @
                                     THEN Set(Del(@, original_title), new_title,
                                              homepage_id)
                                     ELSE @,
                                 !._page_by_title_space =
                                     IF old_key \in DOMAIN @
                                     THEN Set(Del(@, old_key), new_key, homepage_id)
                                     ELSE @]
        f[i \in 0..Len(x.spaces.ord)] ==
            IF i = 0 THEN x ELSE step(f[i - 1], x.spaces.ord[i])
    IN  f[Len(x.spaces.ord)]

\* What os.path.exists and ET.parse make of a path: [kind |-> "xml", root]
\* with the parsed tree, or one of the two failures.
Missing == [kind |-> "missing"]
Malformed == [kind |-> "malformed"]

\* add_xml_file, the try block: the extraction calls up to the comments
extract_content(x, root, cfg) ==
    _extract_comments(
        _extract_pages(_extract_spaces(_extract_users(x, root), root), root, cfg),
        root)

\* the extraction calls after the body contents are applied
extract_relations(x, root, cfg) ==
    _extract_page_properties(
        _extract_labels_and_labellings(
            _extract_outgoing_links(
                _extract_attachments(_link_comments_to_pages(x), root, cfg),
                root),
            root),
        root)

\* self.processed_xml_files.add(xml_path) and _build_helper_indexes()
mark_processed(x, xml_path) ==
    _build_helper_indexes([x EXCEPT !.processed_xml_files = @ \cup {xml_path}])

\* if self.config.UNDERSCORE_HOMEPAGE_TITLES: _underscore_homepage_titles()
underscore_if_configured(x, cfg) ==
    IF cfg.UNDERSCORE_HOMEPAGE_TITLES THEN _underscore_homepage_titles(x) ELSE x

\* the try block from the result of _apply_body_page_relations on
after_body_pages(applied, xml_path, root, cfg) ==
    [x |-> underscore_if_configured(
               mark_processed(extract_relations(applied.x, root, cfg), xml_path),
               cfg),
     success |-> applied.success,
     missing |-> applied.missing]

\* the body of the try block once the file is parsed: [x, success, missing]
\* with the counts of _apply_body_page_relations
ingest_root(x, xml_path, root, cfg) ==
    after_body_pages(
        _apply_body_page_relations(extract_content(x, root, cfg),
                                   _extract_body_page(root)),
        xml_path, root, cfg)

\* a check that forgets the paths already read
never_processed(x, xml_path) == FALSE

already_processed(x, xml_path) == xml_path \in x.processed_xml_files

StatsInit ==
    [processed |-> 0, success |-> 0, failure |-> 0,
     body_links_success |-> 0, body_links_missing |-> 0]

increment_body_links_stats(st, success_count, missing_count) ==
    [st EXCEPT !.body_links_success = @ + success_count,
               !.body_links_missing = @ + missing_count]

\* add_xml_file after the extraction: the counts go to the statistics and
\* the call returns True
ingested(st, r) ==
    [x |-> r.x,
     stats |-> increment_body_links_stats(st, r.success, r.missing),
     ret |-> TRUE]

\* an add_xml_file that marks the path as processed before it reads it
add_xml_file_marking_first(x, st, xml_path, content, cfg) ==
    IF already_processed(x, xml_path) THEN [x |-> x, stats |-> st, ret |-> TRUE]
    ELSE IF content.kind # "xml"
         THEN [x |-> [x EXCEPT !.processed_xml_files = @ \cup {xml_path}],
               stats |-> st, ret |-> FALSE]
    ELSE ingested(st, ingest_root(x, xml_path, content.root, cfg))

\* add_xml_file(xml_path) when the path holds content: [x, stats, ret], the
\* store and the counters after the call and the value returned.
add_xml_file(x, st, xml_path, content, cfg) ==
    IF already_processed(x, xml_path) THEN [x |-> x, stats |-> st, ret |-> TRUE]
    ELSE IF content.kind = "missing" THEN [x |-> x, stats |-> st, ret |-> FALSE]
    ELSE IF content.kind = "malformed" THEN [x |-> x, stats |-> st, ret |-> FALSE]
    ELSE ingested(st, ingest_root(x, xml_path, content.root, cfg))

----------------------------------------------------------------------------
\* xmlprocessor.py: the public lookups.

get_space_by_id(x, space_id) == GetDict(x.spaces.map, space_id)

get_space_by_key(x, space_key) ==
    LET space_id == Get(x._space_by_key, space_key)
    IN  IF space_id # NoneVal /\ space_id # ""
        THEN GetDict(x.spaces.map, space_id)
        ELSE NoneDict

\* one step through page_id_mapping, then the page store
get_page_by_id(x, page_id) ==
    IF page_id = "" \/ page_id = NoneVal THEN NoneDict
    ELSE LET page_id_str ==
                 IF page_id \in DOMAIN x.page_id_mapping
                 THEN x.page_id_mapping[page_id] ELSE page_id
         IN  GetDict(x.page.map, page_id_str)

get_space_id_by_page_id(x, page_id) ==
    LET page_info == get_page_by_id(x, page_id)
    IN  IF page_info = NoneDict THEN NoneVal
        ELSE IF page_info.spaceId # "" THEN page_info.spaceId
        ELSE NoneVal

get_space_key_by_page_id(x, page_id) ==
    LET space_id == get_space_id_by_page_id(x, page_id)
    IN  IF space_id = NoneVal THEN NoneText
        ELSE LET space_info == get_space_by_id(x, space_id)
             IN  IF space_info = NoneDict THEN NoneText
                 ELSE IF space_info.key # <<>> THEN space_info.key
                 ELSE NoneText

\* the title of the page, else "<name> Home" or "<key> Home" of the first
\* space whose home page it is, else None
get_page_title_by_id(x, page_id) ==
    LET page == get_page_by_id(x, page_id)
        named == SelectSeq(x.spaces.ord,
                     LAMBDA sid : x.spaces.map[sid].homePageId = page_id
                                  /\ x.spaces.map[sid].name # <<>>)
        keyed == SelectSeq(x.spaces.ord,
                     LAMBDA sid : x.spaces.map[sid].homePageId = page_id
                                  /\ x.spaces.map[sid].key # <<>>)
    IN  IF page # NoneDict THEN page.title
        ELSE IF named # <<>> THEN x.spaces.map[named[1]].name \o <<" ", "Home">>
        ELSE IF keyed # <<>> THEN x.spaces.map[keyed[1]].key \o <<" ", "Home">>
        ELSE NoneText

get_attachment_by_id(x, attachment_id) == GetDict(x.attachments.map, attachment_id)

\* the attachments whose containerContent_id is the page (after one step
\* through page_id_mapping), in the order of the attachment store
get_attachments_by_page_id(x, page_id) ==
    LET page_id_str ==
            IF page_id \in DOMAIN x.page_id_mapping
            THEN x.page_id_mapping[page_id] ELSE page_id
        ids == SelectSeq(x.attachments.ord,
                   LAMBDA a : x.attachments.map[a].containerContent_id = page_id_str)
    IN  [i \in 1..Len(ids) |-> x.attachments.map[ids[i]]]

----------------------------------------------------------------------------
\* converter.py, main: the XML phase.

\* the counters main updates from the value add_xml_file returned
count_xml_file(r) ==
    [x |-> r.x,
     ret |-> r.ret,
     stats |-> [r.stats EXCEPT !.processed = @ + 1,
                               !.success = IF r.ret THEN @ + 1 ELSE @,
                               !.failure = IF r.ret THEN @ ELSE @ + 1]]

\* One iteration of "for xml_path in xml_files_to_process".
main_add_xml_file(x, st, xml_path, content, cfg) ==
    count_xml_file(add_xml_file(x, st, xml_path, content, cfg))

----------------------------------------------------------------------------
\* Text operations of the link rules (paths use "/" as os.sep).

\* str.strip(): white space off both ends
strip(s) ==
    LET keep == {i \in 1..Len(s) : s[i] # " "}
    IN  IF keep = {} THEN <<>>
        ELSE LET lo == CHOOSE i \in keep : \A j \in keep : i <= j
                 hi == CHOOSE i \in keep : \A j \in keep : i >= j
             IN  SubSeq(s, lo, hi)

\* s.split(sep, 1)[0] and s.split(sep, 1)[1]; the latter is defined only
\* when sep occurs in s
before_first(s, sep) ==
    IF Contains(s, sep) THEN SubSeq(s, 1, Find(s, sep) - 1) ELSE s

after_first(s, sep) == SubSeq(s, Find(s, sep) + Len(sep), Len(s))

\* s.split('/')[-1], which is also os.path.basename(s)
basename(s) ==
    LET slashes == {i \in 1..Len(s) : s[i] = "/"}
    IN  IF slashes = {} THEN s
        ELSE SubSeq(s, (CHOOSE i \in slashes : \A j \in slashes : i >= j) + 1, Len(s))

\* os.path.relpath(path, start) for relative paths without ".."
relpath(path, start) ==
    IF path = <<>> THEN Raised
    ELSE IF StartsWith(path, start \o <<"/">>)
    THEN SubSeq(path, Len(start) + 2, Len(path))
    ELSE <<"..", "/">> \o path

\* what an f-string prints for an id: nothing for the empty string
id_text(id) == IF id = "" THEN <<>> ELSE <<id>>

\* current_dir.split(os.sep)[0] if os.sep in current_dir else current_dir
dir_space_key(current_dir) == before_first(current_dir, <<"/">>)

\* the token after the first occurrence of key that a digit run follows
\* (re.search(key + r'(\d+)')), NoneVal when there is none
digits_after(link, key) ==
    LET hits == {i \in 1..(Len(link) - Len(key)) :
                    /\ SubSeq(link, i, i + Len(key) - 1) = key
                    /\ IsDigits(link[i + Len(key)])}
    IN  IF hits = {} THEN NoneVal
        ELSE link[(CHOOSE i \in hits : \A j \in hits : i <= j) + Len(key)]

\* the number of digits of a digit run
digit_count(t) ==
    CASE t \in {"1", "2", "3", "4", "5"} -> 1
      [] t \in {"42"} -> 2
      [] t \in {"123", "456", "789"} -> 3
      [] t \in {"1234567", "7654321"} -> 7
      [] OTHER -> 0

----------------------------------------------------------------------------
\* converter.py: _process_link.  Each rule yields the text it returns, Raised
\* when it raises, or Fall when control passes to the next rule.

Fall == <<"<next rule>">>

\* if not link or link.strip() == "": return ""
rule_empty(link) == IF strip(link) = <<>> THEN <<>> ELSE Fall

\* external links, except those that start with 'https://confluence'
rule_external(link) ==
    IF /\ (StartsWith(link, <<"http://">>) \/ StartsWith(link, <<"https://">>))
       /\ ~StartsWith(link, <<"https://", "confluence">>)
    THEN link ELSE Fall

rule_file(link) == IF StartsWith(link, <<"file://">>) THEN link ELSE Fall

\* if page_title: a title that is neither None nor empty
is_title(t) == t # NoneText /\ t # <<>>

\* an index.html rule that does not look at the other spaces
rule_index_own_space(link, current_dir, x) ==
    IF link # <<"index", ".html">> THEN Fall
    ELSE LET space_info == get_space_by_key(x, dir_space_key(current_dir))
             own == IF space_info # NoneDict /\ space_info.homePageId # ""
                    THEN get_page_title_by_id(x, space_info.homePageId)
                    ELSE NoneText
         IN  IF is_title(own) THEN own \o <<".md">> ELSE <<"index", ".md">>

\* link == "index.html"
rule_index(link, current_dir, x) ==
    IF link # <<"index", ".html">> THEN Fall
    ELSE LET space_info == get_space_by_key(x, dir_space_key(current_dir))
             own == IF space_info # NoneDict /\ space_info.homePageId # ""
                    THEN get_page_title_by_id(x, space_info.homePageId)
                    ELSE NoneText
             homes == SelectSeq(x.spaces.ord,
                         LAMBDA sid :
                            /\ x.spaces.map[sid].homePageId # ""
                            /\ is_title(get_page_title_by_id(x,
                                   x.spaces.map[sid].homePageId)))
         IN  IF is_title(own) THEN own \o <<".md">>
             ELSE IF homes # <<>>
             THEN get_page_title_by_id(x, x.spaces.map[homes[1]].homePageId)
                    \o <<".md">>
             ELSE <<"index", ".md">>

\* re.search(r'attachments/\d+/(\d+)|download/attachments/\d+/(\d+)', link):
\* the attachment id, NoneVal when there is no match
attachment_id_of(link) ==
    LET hits == {i \in 1..(Len(link) - 4) :
                    /\ link[i] = "attachments" /\ link[i + 1] = "/"
                    /\ IsDigits(link[i + 2]) /\ link[i + 3] = "/"
                    /\ IsDigits(link[i + 4])}
    IN  IF hits = {} THEN NoneVal
        ELSE link[(CHOOSE i \in hits : \A j \in hits : i <= j) + 4]

\* re.search(rf'{config.ATTACHMENTS_PATH}/(\d+)/', link)
attachment_page_id_of(link, cfg) ==
    LET hits == {i \in 1..(Len(link) - 3) :
                    /\ link[i] = cfg.ATTACHMENTS_PATH /\ link[i + 1] = "/"
                    /\ IsDigits(link[i + 2]) /\ link[i + 3] = "/"}
    IN  IF hits = {} THEN NoneVal
        ELSE link[(CHOOSE i \in hits : \A j \in hits : i <= j) + 2]

\* f"{space_key}/{config.ATTACHMENTS_PATH}/{page_id}/{filename}"
attachment_link(space_key, cfg, page_id, filename) ==
    space_key \o <<"/", cfg.ATTACHMENTS_PATH, "/">> \o id_text(page_id)
        \o <<"/">> \o filename

\* the path of an attachment found by its id, as it would be if it were built from the page id of the link
attachment_by_link_page(x, cfg, link_page_id, attachment) ==
    attachment_link(get_space_key_by_page_id(x, link_page_id),
                    cfg, link_page_id, attachment.title)

\* the attachment was found by its id: the path is built from its container
attachment_by_id_link(x, cfg, link_page_id, attachment) ==
    IF Subscript(attachment, "title") = Raised THEN Raised
    ELSE attachment_link(
             get_space_key_by_page_id(x, attachment.containerContent_id),
             cfg, attachment.containerContent_id, attachment.title)

\* the fallbacks of the attachment rule, once the id lookup has failed
attachment_fallback(link, current_dir, x, ap, cfg) ==
    LET link_filename == basename(before_first(link, <<"?">>))
        decoded_filename == _sanitize_filename(link_filename, cfg)
        page_id == attachment_page_id_of(link, cfg)
        atts == IF page_id = NoneVal THEN <<>>
                ELSE SelectSeq(get_attachments_by_page_id(x, page_id),
                        LAMBDA att : att.title = link_filename
                                     \/ att.title = decoded_filename)
        mapped == SelectSeq(ap.file_mapping.ord,
                     LAMBDA orig_path :
                        /\ Contains(orig_path, <<page_id>>)
                        /\ \/ Contains(basename(ap.file_mapping.map[orig_path]),
                                       link_filename)
                           \/ Contains(basename(ap.file_mapping.map[orig_path]),
                                       decoded_filename))
    IN  IF atts # <<>>
        THEN IF Subscript(atts[1], "title") = Raised THEN Raised
             ELSE attachment_link(
                      get_space_key_by_page_id(x, atts[1].containerContent_id),
                      cfg, atts[1].containerContent_id, atts[1].title)
        ELSE IF page_id # NoneVal /\ mapped # <<>>
        THEN relpath(ap.file_mapping.map[mapped[1]], <<cfg.OUTPUT_FOLDER>>)
        ELSE IF current_dir # <<>> /\ page_id # NoneVal
        THEN attachment_link(dir_space_key(current_dir), cfg, page_id,
                             link_filename)
        ELSE link

\* 'attachments/' in link or 'download/attachments/' in link
rule_attachment(link, current_dir, x, ap, cfg) ==
    IF ~Contains(link, <<cfg.ATTACHMENTS_PATH, "/">>) THEN Fall
    ELSE LET attachment_id == attachment_id_of(link)
             attachment == IF attachment_id = NoneVal THEN NoneDict
                           ELSE get_attachment_by_id(x, attachment_id)
         IN  IF attachment # NoneDict
             THEN attachment_by_id_link(x, cfg,
                      attachment_page_id_of(link, cfg), attachment)
             ELSE attachment_fallback(link, current_dir, x, ap, cfg)

\* space_info and space_info.get("key"): the key of the page's space, <<>>
\* when the space is unknown or has no key
page_space_key(x, page_info) ==
    LET space_info == get_space_by_id(x, page_info.spaceId)
    IN  IF space_info # NoneDict THEN space_info.key ELSE <<>>

\* f"{key}/{title}.md", or f"{title}.md" without a key
page_link(key, title) ==
    IF key # <<>> THEN key \o <<"/">> \o title \o <<".md">>
    ELSE title \o <<".md">>

\* f"{key}/{config.BLOGPOST_PATH}/{title}.md", or f"{title}.md" without a key
blog_link(key, cfg, title) ==
    IF key # <<>> THEN key \o <<"/", cfg.BLOGPOST_PATH, "/">> \o title \o <<".md">>
    ELSE title \o <<".md">>

\* '/pages/viewpage.action' in link and 'pageId=' in link
rule_viewpage(link, x, cfg) ==
    IF ~(Contains(link, <<"/", "pages", "/", "viewpage.action">>)
         /\ Contains(link, <<"pageId=">>))
    THEN Fall
    ELSE LET page_id == digits_after(link, <<"pageId=">>)
             page_info == get_page_by_id(x, page_id)
         IN  IF page_id = NoneVal THEN Fall
             ELSE IF page_info = NoneDict THEN link
             ELSE IF page_info.type = "BlogPost"
             THEN blog_link(page_space_key(x, page_info), cfg, page_info.title)
             ELSE page_link(page_space_key(x, page_info), page_info.title)

\* what the edit link of a stored page becomes: the blog post path,
\* whatever the type of the page
editblogpost_link(x, cfg, page_info) ==
    IF page_info.spaceId # ""
    THEN blog_link(page_space_key(x, page_info), cfg, page_info.title)
    ELSE page_info.title \o <<".md">>

\* '/pages/editblogpost.action' in link and 'pageId=' in link
rule_editblogpost(link, x, cfg) ==
    IF ~(Contains(link, <<"/", "pages", "/", "editblogpost.action">>)
         /\ Contains(link, <<"pageId=">>))
    THEN Fall
    ELSE LET page_id == digits_after(link, <<"pageId=">>)
             page_info == get_page_by_id(x, page_id)
         IN  IF page_id = NoneVal THEN Fall
             ELSE IF page_info = NoneDict THEN Fall
             ELSE editblogpost_link(x, cfg, page_info)

\* '/label/' in link: the tag is the last path segment
rule_label(link) ==
    IF Contains(link, <<"/", "label", "/">>) THEN <<"#">> \o basename(link)
    ELSE Fall

\* a '/labels/' rule that never consults the label index
rule_labels_unindexed(link, x) ==
    IF ~Contains(link, <<"/", "labels", "/">>) THEN Fall
    ELSE IF digits_after(link, <<"ids=">>) = NoneVal THEN Fall
    ELSE <<"#", "label_", digits_after(link, <<"ids=">>)>>

\* '/labels/' in link: the tag of the label id
rule_labels(link, x) ==
    IF ~Contains(link, <<"/", "labels", "/">>) THEN Fall
    ELSE LET label_id == digits_after(link, <<"ids=">>)
         IN  IF label_id = NoneVal THEN Fall
             ELSE IF label_id \in DOMAIN x._label_by_id
             THEN IF Subscript(x._label_by_id[label_id], "name") = Raised
                  THEN Raised
                  ELSE <<"#">> \o x._label_by_id[label_id].name
             ELSE <<"#", "label_", label_id>>

\* '/display/~' in link
rule_display_user(link) ==
    IF Contains(link, <<"/", "display", "/", "~">>)
    THEN <<"@">> \o strip(before_first(after_first(link, <<"/", "display", "/", "~">>),
                                       <<"/", "display", "/", "~">>))
    ELSE Fall

plus_to_space(t) == IF t = "+" THEN " " ELSE t

\* '/display/' in link and not '/display/~' in link
rule_display(link, x, cfg) ==
    IF ~Contains(link, <<"/", "display", "/">>)
       \/ Contains(link, <<"/", "display", "/", "~">>)
    THEN Fall
    ELSE LET rest == after_first(link, <<"/", "display", "/">>)
             space_key == before_first(rest, <<"/">>)
             page_title ==
                 _sanitize_filename(MapSeq(after_first(rest, <<"/">>), plus_to_space),
                                    cfg)
         IN  IF Contains(rest, <<"/">>)
             THEN space_key \o <<"/">> \o page_title \o <<".md">>
             ELSE space_key \o <<".md">>

\* re.search(r'data-username="([^"]+)"', link): the name, NoneText when
\* there is no match
data_username_of(link) ==
    LET hits == {i \in 1..(Len(link) - 2) :
                    /\ link[i] = "data-username=\""
                    /\ link[i + 1] # "\""
                    /\ \E j \in (i + 2)..Len(link) : link[j] = "\""}
    IN  IF hits = {} THEN NoneText
        ELSE LET i == CHOOSE h \in hits : \A k \in hits : h <= k
                 rest == SubSeq(link, i + 1, Len(link))
             IN  before_first(rest, <<"\"">>)

\* re.search(r'/display/~([^\s"]+)', link): the name, NoneText when there
\* is no match
href_username_of(link) ==
    LET key == <<"/", "display", "/", "~">>
        hits == {i \in 1..(Len(link) - 4) :
                    /\ SubSeq(link, i, i + 3) = key
                    /\ link[i + 4] \notin {" ", "\""}}
    IN  IF hits = {} THEN NoneText
        ELSE LET i == CHOOSE h \in hits : \A k \in hits : h <= k
                 rest == SubSeq(link, i + 4, Len(link))
                 stop == {j \in 1..Len(rest) : rest[j] \in {" ", "\""}}
             IN  IF stop = {} THEN rest
                 ELSE SubSeq(rest, 1, (CHOOSE j \in stop : \A k \in stop : j <= k) - 1)

\* 'userLogoLink' in link or 'data-username' in link
rule_user_logo(link) ==
    IF ~(\E i \in 1..Len(link) : link[i] \in {"userLogoLink", "data-username=\""})
    THEN Fall
    ELSE IF data_username_of(link) # NoneText
    THEN <<"@">> \o strip(data_username_of(link))
    ELSE IF href_username_of(link) # NoneText
    THEN <<"@">> \o strip(href_username_of(link))
    ELSE <<>>

\* a lookup by embedded id that drops the link when the page is unknown
id_page_link_or_drop(x, page_id) ==
    LET page_info == get_page_by_id(x, page_id)
    IN  IF page_info = NoneDict THEN <<>>
        ELSE IF page_info.spaceId # ""
        THEN page_link(page_space_key(x, page_info), page_info.title)
        ELSE page_info.title \o <<".md">>

\* the page a file name with an embedded id leads to; the lookup goes on to
\* the next rule when the page is unknown
id_page_link(x, page_id) ==
    LET page_info == get_page_by_id(x, page_id)
    IN  IF page_info = NoneDict THEN Fall
        ELSE IF page_info.spaceId # ""
        THEN page_link(page_space_key(x, page_info), page_info.title)
        ELSE page_info.title \o <<".md">>

\* \d{6,10}
is_page_id_run(t) == IsDigits(t) /\ digit_count(t) >= 6 /\ digit_count(t) <= 10

\* re.search(r'_(\d{6,10})\.html$', link)
rule_underscore_id(link, x) ==
    IF /\ Len(link) >= 3
       /\ link[Len(link)] = ".html"
       /\ is_page_id_run(link[Len(link) - 1])
       /\ link[Len(link) - 2] = "_"
    THEN id_page_link(x, link[Len(link) - 1])
    ELSE Fall

\* re.search(r'(\d{6,10})\.html$', link)
rule_bare_id(link, x) ==
    IF /\ Len(link) >= 2
       /\ link[Len(link)] = ".html"
       /\ is_page_id_run(link[Len(link) - 1])
    THEN id_page_link(x, link[Len(link) - 1])
    ELSE Fall

\* link.endswith('.html'): os.path.splitext(link)[0] + ".md"; a base name
\* that is only ".html" has no extension to split off
rule_html(link) ==
    IF ~EndsWith(link, <<".html">>) THEN Fall
    ELSE IF Len(link) = 1 \/ link[Len(link) - 1] = "/" THEN link \o <<".md">>
    ELSE SubSeq(link, 1, Len(link) - 1) \o <<".md">>

\* link.startswith(f"{config.CONFLUENCE_BASE_URL}?createDialogSpaceKey")
rule_create_dialog(link, cfg) ==
    IF StartsWith(link, cfg.CONFLUENCE_BASE_URL \o <<"?", "createDialogSpaceKey">>)
    THEN <<>> ELSE Fall

\* the file mapping consulted with the sanitized link text
rule_file_mapping(link, x, ap, cfg) ==
    LET link_sanitized == _sanitize_filename(link, cfg)
        mapped == SelectSeq(ap.file_mapping.ord,
                     LAMBDA orig_path :
                        /\ Contains(orig_path, link_sanitized)
                        /\ Contains(basename(ap.file_mapping.map[orig_path]),
                                    link_sanitized))
    IN  IF link_sanitized # <<>> /\ mapped # <<>>
        THEN relpath(ap.file_mapping.map[mapped[1]], <<cfg.OUTPUT_FOLDER>>)
        ELSE Fall

\* The return statements of _process_link in the order of the code, each
\* with the rule of the documented chain it belongs to (0: a return that the
\* documented chain does not have).
link_rules(link, current_dir, x, ap, cfg) ==
    << [rule |-> 0,  at |-> "empty",         ret |-> rule_empty(link)],
       [rule |-> 1,  at |-> "external",      ret |-> rule_external(link)],
       [rule |-> 2,  at |-> "file",          ret |-> rule_file(link)],
       [rule |-> 3,  at |-> "index",         ret |-> rule_index(link, current_dir, x)],
       [rule |-> 4,  at |-> "attachment",
        ret |-> rule_attachment(link, current_dir, x, ap, cfg)],
       [rule |-> 5,  at |-> "viewpage",      ret |-> rule_viewpage(link, x, cfg)],
       [rule |-> 5,  at |-> "editblogpost",  ret |-> rule_editblogpost(link, x, cfg)],
       [rule |-> 6,  at |-> "label",         ret |-> rule_label(link)],
       [rule |-> 6,  at |-> "labels",        ret |-> rule_labels(link, x)],
       [rule |-> 7,  at |-> "display_user",  ret |-> rule_display_user(link)],
       [rule |-> 8,  at |-> "display",       ret |-> rule_display(link, x, cfg)],
       [rule |-> 0,  at |-> "user_logo",     ret |-> rule_user_logo(link)],
       [rule |-> 9,  at |-> "underscore_id", ret |-> rule_underscore_id(link, x)],
       [rule |-> 9,  at |-> "bare_id",       ret |-> rule_bare_id(link, x)],
       [rule |-> 10, at |-> "html",          ret |-> rule_html(link)],
       [rule |-> 11, at |-> "create_dialog", ret |-> rule_create_dialog(link, cfg)],
       [rule |-> 12, at |-> "file_mapping",
        ret |-> rule_file_mapping(link, x, ap, cfg)],
       [rule |-> 12, at |-> "default",       ret |-> link] >>

\* the first rule, in the order of the code, that returns
first_return(rules) ==
    rules[CHOOSE k \in 1..Len(rules) :
              /\ rules[k].ret # Fall
              /\ \A j \in 1..(k - 1) : rules[j].ret = Fall]

\* _process_link with the return statement that produced the result
process_link_at(link, current_dir, x, ap, cfg) ==
    first_return(link_rules(link, current_dir, x, ap, cfg))

_process_link(link, current_dir, x, ap, cfg) ==
    process_link_at(link, current_dir, x, ap, cfg).ret

----------------------------------------------------------------------------
\* linkchecker.py: LinkChecker.convert_wikilink, and the replace_link of
\* _fix_md_crosslinks that calls it.  In the formatted text every bracket,
\* bar, backslash and exclamation mark is a token of its own.

\* "if description:" is false for None and for the empty string
is_given(description) == description # NoneText /\ description # <<>>

\* the leading '!' of an embedded link
embed_mark(is_embedded) == IF is_embedded THEN <<"!">> ELSE <<>>

\* f"[{description or link}]({link})" for http://, https:// and ftp://
external_link(description, link, is_embedded) ==
    embed_mark(is_embedded) \o <<"[">>
    \o (IF is_given(description) THEN description ELSE link)
    \o <<"]", "(">> \o link \o <<")">>

fileserver_path(t) == IF t = "/" THEN "\\" ELSE t

file_path_token(t) ==
    CASE t = " " -> "%20"
      [] t = "\\" -> "/"
      [] OTHER -> t

\* a file:// link: three slashes, spaces encoded, backslashes turned, and
\* the UNC form when the file server replacement is configured
file_link(description, link, cfg) ==
    LET rest == Tail(link)
        path == MapSeq(IF rest # <<>> /\ rest[1] = "/" THEN Tail(rest) ELSE rest,
                       file_path_token)
        path_part ==
            IF cfg.FILESERVER_REPLACEMENT_ENABLED
               /\ StartsWith(path, cfg.FILESERVER_INDICATOR)
            THEN <<"\\", "\\">> \o MapSeq(path, fileserver_path)
            ELSE path
    IN  <<"[">> \o (IF is_given(description) THEN description ELSE path_part)
        \o <<"]", "(", "file://", "/">> \o path_part \o <<")">>

\* "[[link|description]]", the bar escaped when configured
wiki_link(description, link, is_embedded, cfg) ==
    embed_mark(is_embedded) \o <<"[", "[">> \o link
    \o (IF ~is_given(description) THEN <<>>
        ELSE IF cfg.USE_ESCAPING_FOR_WIKI_LINKS THEN <<"\\", "|">> \o description
        ELSE <<"|">> \o description)
    \o <<"]", "]">>

\* "[description](<link>)"; the branch without description and without
\* is_embedded returns f"[{link}](<{link}>"
markdown_link(description, link, is_embedded) ==
    IF is_given(description)
    THEN embed_mark(is_embedded) \o <<"[">> \o description
         \o <<"]", "(", "<">> \o link \o <<">", ")">>
    ELSE IF is_embedded
    THEN <<"!", "[">> \o link \o <<"]", "(", "<">> \o link \o <<">", ")">>
    ELSE <<"[">> \o link \o <<"]", "(", "<">> \o link \o <<">">>

convert_wikilink(description, link, is_embedded, cfg) ==
    IF link # <<>> /\ link[1] \in {"http://", "https://", "ftp://"}
    THEN external_link(description, link, is_embedded)
    ELSE IF link # <<>> /\ link[1] = "file://"
    THEN file_link(description, link, cfg)
    ELSE IF cfg.USE_WIKI_LINKS
    THEN wiki_link(description, link, is_embedded, cfg)
    ELSE markdown_link(description, link, is_embedded)

\* the tokens that hold a dot inside, and what stands before it
action_stem(t) ==
    CASE t = "viewpage.action" -> "viewpage"
      [] t = "editblogpost.action" -> "editblogpost"
      [] t = "viewlabel.action" -> "viewlabel"
      [] OTHER -> NoneVal

\* os.path.splitext(name)[0] of a base name: the extension starts at the
\* last dot, which is a token ".", the head of a token like ".md" or lies
\* inside a token like "viewpage.action"; a dot at the head of the name
\* starts no extension
splitext_root(name) ==
    LET dots == {i \in 1..Len(name) :
                    \/ i >= 2 /\ name[i] \in {".", ".md", ".html"}
                    \/ action_stem(name[i]) # NoneVal}
        last == CHOOSE i \in dots : \A j \in dots : i >= j
    IN  IF dots = {} THEN name
        ELSE IF action_stem(name[last]) # NoneVal
        THEN SubSeq(name, 1, last - 1) \o <<action_stem(name[last])>>
        ELSE SubSeq(name, 1, last - 1)

\* match.group(2).strip('<>')
strip_angle(s) ==
    LET keep == {i \in 1..Len(s) : s[i] \notin {"<", ">"}}
    IN  IF keep = {} THEN <<>>
        ELSE LET lo == CHOOSE i \in keep : \A j \in keep : i <= j
                 hi == CHOOSE i \in keep : \A j \in keep : i >= j
             IN  SubSeq(s, lo, hi)

\* replace_link once _process_link has returned new_link
formatted(description, new_link, cfg) ==
    IF new_link = <<>> THEN description
    ELSE IF new_link[1] = "#" THEN new_link
    ELSE IF new_link[1] = "@" THEN new_link
    ELSE IF cfg.BLOGPOST_LINK_REPLACEMENT_ENABLED
            /\ description = cfg.BLOGPOST_LINK_INDICATOR
    THEN convert_wikilink(splitext_root(basename(new_link))
                              \o cfg.BLOGPOST_LINK_REPLACEMENT,
                          new_link, FALSE, cfg)
    ELSE convert_wikilink(description, new_link, FALSE, cfg)

replace_link(description, link, current_dir, x, ap, cfg) ==
    formatted(description,
              _process_link(strip_angle(link), current_dir, x, ap, cfg), cfg)

----------------------------------------------------------------------------
\* attachmentprocessor.py.  The file system maps the path of each file to
\* its [size, mtime]; a directory exists when a file lies below it.  In the
\* names of attachment files every dot is the token ".".

\* os.path.join(a, b)
join(a, b) == a \o <<"/">> \o b

\* os.path.dirname(path)
dirname(path) ==
    LET slashes == {i \in 1..Len(path) : path[i] = "/"}
    IN  IF slashes = {} THEN <<>>
        ELSE SubSeq(path, 1, (CHOOSE i \in slashes : \A j \in slashes : i >= j) - 1)

isdir(files, path) == \E p \in DOMAIN files : StartsWith(p, path \o <<"/">>)

\* os.path.exists(path)
exists(files, path) == path \in DOMAIN files \/ isdir(files, path)

\* os.listdir(dir): the names of the entries of dir, in the order in which
\* the file system reports them (order lists the paths of the file system)
listdir(files, dir, order) ==
    LET name(i) ==
            IF order[i] \in DOMAIN files /\ StartsWith(order[i], dir \o <<"/">>)
            THEN before_first(SubSeq(order[i], Len(dir) + 2, Len(order[i])), <<"/">>)
            ELSE <<>>
        f[i \in 0..Len(order)] ==
            IF i = 0 THEN <<>>
            ELSE IF name(i) # <<>> /\ \A j \in 1..Len(f[i - 1]) : f[i - 1][j] # name(i)
            THEN Append(f[i - 1], name(i))
            ELSE f[i - 1]
    IN  f[Len(order)]

\* the id a directory or file name spells, NoneVal when it is not one token
name_id(name) == IF Len(name) = 1 THEN name[1] ELSE NoneVal

\* int(filename): the version number, -1 for ValueError
version_number(filename) ==
    IF Len(filename) # 1 THEN -1
    ELSE CASE filename[1] = "0" -> 0
           [] filename[1] = "1" -> 1
           [] filename[1] = "2" -> 2
           [] filename[1] = "3" -> 3
           [] filename[1] = "4" -> 4
           [] filename[1] = "5" -> 5
           [] OTHER -> -1

has_dot(name) == \E i \in 1..Len(name) : name[i] = "."

\* name.split(".")[-1]
after_last_dot(name) ==
    LET dots == {i \in 1..Len(name) : name[i] = "."}
    IN  IF dots = {} THEN name
        ELSE SubSeq(name, (CHOOSE i \in dots : \A j \in dots : i >= j) + 1, Len(name))

\* _get_extension_from_content_type(att_details.get("contentType")): the
\* attachment dicts of _extract_attachments have no contentType, so the
\* argument is None and the answer "bin"
_get_extension_from_content_type(content_type) == <<"bin">>

\* a copy policy that also copies a source as old as the destination
should_copy_file_or_equal(files, src, dst) ==
    IF dst \notin DOMAIN files THEN TRUE
    ELSE IF files[src].size # files[dst].size THEN TRUE
    ELSE files[src].mtime >= files[dst].mtime

should_copy_file(files, src, dst) ==
    IF dst \notin DOMAIN files THEN TRUE
    ELSE IF files[src].size # files[dst].size THEN TRUE
    ELSE files[src].mtime > files[dst].mtime

\* shutil.copy2(src, dst): dst gets the content and the times of src
copy2(files, src, dst) == Set(files, dst, files[src])

\* what a should_copy_file call saw and answered
copy_check(files, src, dst) ==
    [src |-> src, dst |-> dst,
     dst_exists |-> dst \in DOMAIN files,
     src_stat |-> files[src],
     dst_stat |-> IF dst \in DOMAIN files THEN files[dst] ELSE NoneDict,
     ret |-> should_copy_file(files, src, dst)]

\* The state the two processing methods work on: the AttachmentProcessor,
\* the files, the number of copy2 calls and the should_copy_file calls.
attachment_state(ap, files) ==
    [ap |-> ap, files |-> files, copies |-> 0, checks |-> <<>>]

\* get_space_key_by_xml: the key of the first Space of the file that has one
get_space_key_by_xml(root) ==
    LET keyed == SelectSeq(root.spaces, LAMBDA sp : sp.key # <<>>)
    IN  IF keyed = <<>> THEN NoneText ELSE strip(keyed[1].key)

\* the copy step of process_xml_attachments: the mapping is recorded
\* whether or not the file is copied
copy_versioned(st, latest_file, dst_path) ==
    LET chk == copy_check(st.files, latest_file, dst_path)
        mapped == [st.ap EXCEPT !.file_mapping = Put(@, latest_file, dst_path)]
    IN  IF chk.ret
        THEN [ap |-> mapped, files |-> copy2(st.files, latest_file, dst_path),
              copies |-> st.copies + 1, checks |-> Append(st.checks, chk)]
        ELSE [st EXCEPT !.ap = mapped, !.checks = Append(@, chk)]

\* a choice of the version file that takes the first file named by a
\* positive number
first_file(files, att_dir, order) ==
    LET names == listdir(files, att_dir, order)
        f[i \in 0..Len(names)] ==
            IF i = 0 THEN NoneText
            ELSE IF f[i - 1] = NoneText /\ version_number(names[i]) > 0
            THEN join(att_dir, names[i])
            ELSE f[i - 1]
    IN  f[Len(names)]

\* the loop over os.listdir(att_dir): latest_file after it, None when no
\* file name is a number above 0
latest_file(files, att_dir, order) ==
    LET names == listdir(files, att_dir, order)
        f[i \in 0..Len(names)] ==
            IF i = 0 THEN [version |-> 0, file |-> NoneText]
            ELSE IF version_number(names[i]) > f[i - 1].version
            THEN [version |-> version_number(names[i]),
                  file |-> join(att_dir, names[i])]
            ELSE f[i - 1]
    IN  f[Len(names)].file

process_xml_attachments(st, x, cfg, xml_path, root, order) ==
    LET xml_folder == dirname(xml_path)
        attachments_dir == join(xml_folder, <<cfg.ATTACHMENTS_PATH>>)
        space_key == get_space_key_by_xml(root)
        output_attachments_dir ==
            join(join(<<cfg.OUTPUT_FOLDER>>, space_key), <<cfg.ATTACHMENTS_PATH>>)
        latest(att_dir) == latest_file(st.files, att_dir, order)
        att_step(s, page_dir, out_dir, att_id) ==
            LET att_dir == join(page_dir, att_id)
                att_details == get_attachment_by_id(x, name_id(att_id))
                new_filename == IF att_details.title # <<>> THEN att_details.title
                                ELSE <<"attachment_">> \o att_id
            IN  IF ~isdir(s.files, att_dir) THEN s
                ELSE IF att_details = NoneDict
                THEN [s EXCEPT !.ap.skipped_files = @ \cup {att_dir}]
                ELSE IF latest(att_dir) = NoneText THEN s
                ELSE copy_versioned(s, latest(att_dir), join(out_dir, new_filename))
        page_step(s, page_id) ==
            LET page_dir == join(attachments_dir, page_id)
                out_dir == join(output_attachments_dir, page_id)
                atts == listdir(st.files, page_dir, order)
                f[i \in 0..Len(atts)] ==
                    IF i = 0 THEN s ELSE att_step(f[i - 1], page_dir, out_dir, atts[i])
            IN  IF ~isdir(s.files, page_dir) THEN s
                ELSE IF get_page_by_id(x, name_id(page_id)) = NoneDict THEN s
                ELSE f[Len(atts)]
        pages == listdir(st.files, attachments_dir, order)
        g[i \in 0..Len(pages)] ==
            IF i = 0 THEN st ELSE page_step(g[i - 1], pages[i])
    IN  IF xml_path = <<>> THEN st
        ELSE IF ~exists(st.files, attachments_dir) THEN st
        ELSE IF space_key = NoneText THEN st
        ELSE g[Len(pages)]

\* the copy step of process_space_attachments: the mapping is recorded only
\* when the file is copied
copy_direct(st, src_path, dst_path) ==
    LET chk == copy_check(st.files, src_path, dst_path)
    IN  IF chk.ret
        THEN [ap |-> [st.ap EXCEPT !.file_mapping = Put(@, src_path, dst_path)],
              files |-> copy2(st.files, src_path, dst_path),
              copies |-> st.copies + 1, checks |-> Append(st.checks, chk)]
        ELSE [st EXCEPT !.checks = Append(@, chk)]

\* the step for a source path that is in the mapping already: the file is
\* copied again when it is fresher, the tables stay
copy_mapped(st, src_path) ==
    LET dst_path == st.ap.file_mapping.map[src_path]
        chk == copy_check(st.files, src_path, dst_path)
    IN  IF chk.ret
        THEN [st EXCEPT !.files = copy2(st.files, src_path, dst_path),
                        !.copies = @ + 1, !.checks = Append(@, chk)]
        ELSE [st EXCEPT !.checks = Append(@, chk)]

\* the name of the copy of an attachment file of the per-space tree
direct_filename(att_details, filename) ==
    LET proper_title == IF att_details.title # <<>> THEN att_details.title
                        ELSE filename
        extension == IF has_dot(filename) THEN after_last_dot(filename)
                     ELSE IF has_dot(proper_title) THEN after_last_dot(proper_title)
                     ELSE _get_extension_from_content_type(NoneVal)
    IN  IF ~has_dot(proper_title) THEN proper_title \o <<".">> \o extension
        ELSE proper_title

process_space_attachments(st, x, cfg, space_key, order) ==
    LET attachments_dir ==
            join(join(<<cfg.INPUT_FOLDER>>, space_key), <<cfg.ATTACHMENTS_PATH>>)
        output_attachments_dir ==
            join(join(<<cfg.OUTPUT_FOLDER>>, space_key), <<cfg.ATTACHMENTS_PATH>>)
        file_step(s, page_dir, out_dir, filename) ==
            LET src_path == join(page_dir, filename)
                att_id == IF has_dot(filename) THEN before_first(filename, <<".">>)
                          ELSE filename
                att_details == get_attachment_by_id(x, name_id(att_id))
                marked == [s EXCEPT !.ap.processed_attachments = @ \cup {src_path}]
            IN  IF src_path \in s.ap.processed_attachments THEN s
                ELSE IF HasKey(s.ap.file_mapping, src_path)
                THEN copy_mapped(s, src_path)
                ELSE IF att_details = NoneDict
                THEN [marked EXCEPT !.ap.skipped_files = @ \cup {src_path}]
                ELSE copy_direct(marked, src_path,
                         join(out_dir, direct_filename(att_details, filename)))
        page_step(s, page_id) ==
            LET page_dir == join(attachments_dir, page_id)
                out_dir == join(output_attachments_dir, page_id)
                names == listdir(st.files, page_dir, order)
                f[i \in 0..Len(names)] ==
                    IF i = 0 THEN s
                    ELSE file_step(f[i - 1], page_dir, out_dir, names[i])
            IN  IF ~isdir(s.files, page_dir) THEN s
                ELSE IF get_page_by_id(x, name_id(page_id)) = NoneDict THEN s
                ELSE f[Len(names)]
        pages == listdir(st.files, attachments_dir, order)
        g[i \in 0..Len(pages)] ==
            IF i = 0 THEN st ELSE page_step(g[i - 1], pages[i])
    IN  IF ~exists(st.files, attachments_dir) THEN st
        ELSE g[Len(pages)]

----------------------------------------------------------------------------
\* The XML files of the ingestion specification.

TA == <<"A">>
TB == <<"B">>
TU == <<"_", "A">>

IdPool == <<"1", "2", "3", "4", "5", "6", "7", "8">>

\* Page records: title A in every version, current or (newest) draft; title B
\* and title _A, which starts with the homepage marker, in one current
\* version.
PageKinds ==
    {k \in [title : {TA, TB, TU}, hv : 1..MaxHV, status : {"current", "draft"}] :
        /\ k.title \in {TB, TU} => (k.hv = 1 /\ k.status = "current")
        /\ k.status = "draft" => k.hv = MaxHV}

\* BlogPost records: title A; current in every version, draft or deleted in
\* the newest version, and one current record without a space property.
BlogKinds ==
    {k \in [title : {TA}, hv : 1..MaxHV,
            status : {"current", "draft", "deleted"}, space : {"s1", ""}] :
        /\ k.space = "" => (k.hv = 1 /\ k.status = "current")
        /\ k.status # "current" => k.hv = MaxHV}

PageObj(k, id) ==
    [id |-> id, title |-> k.title, hv |-> k.hv, status |-> k.status,
     space |-> "s1", parent |-> ""]

BlogObj(k, id) ==
    [id |-> id, title |-> k.title, hv |-> k.hv, status |-> k.status,
     space |-> k.space, parent |-> ""]

SpaceS1 ==
    [id |-> "s1", key |-> <<"K1">>, name |-> <<"N1">>, homePageId |-> "1"]

AuxEmpty ==
    [users |-> <<>>, comments |-> <<>>, bodies |-> <<>>, attachments |-> <<>>,
     links |-> <<>>, labels |-> <<>>, labellings |-> <<>>, props |-> <<>>]

AuxFull ==
    [users |-> <<[id |-> "u1", name |-> <<"bob">>]>>,
     comments |-> <<[id |-> "c1", container |-> "1"]>>,
     bodies |-> <<[id |-> "b1", content |-> "c1", class |-> "Comment"],
                  [id |-> "b2", content |-> "2", class |-> "Page"]>>,
     attachments |-> <<[id |-> "456", title |-> <<"Manual", ".", "pdf">>,
                        container |-> "2", space |-> "s1"]>>,
     links |-> <<[id |-> "l1", source |-> "1"]>>,
     labels |-> <<[id |-> "42", name |-> <<"safety">>]>>,
     labellings |-> <<[label |-> "42", page |-> "1"]>>,
     props |-> <<[id |-> "pp1", page |-> "2"]>>]

Root(spaces, pages, blogs, aux) ==
    [spaces |-> spaces, pages |-> pages, blogs |-> blogs,
     users |-> aux.users, comments |-> aux.comments, bodies |-> aux.bodies,
     attachments |-> aux.attachments, links |-> aux.links,
     labels |-> aux.labels, labellings |-> aux.labellings, props |-> aux.props]

\* The files with np Page and nb BlogPost records whose ids are the
\* entries off+1 .. off+np+nb of IdPool.
RootsOf(np, nb, off) ==
    {Root(sp, [i \in 1..np |-> PageObj(pk[i], IdPool[off + i])],
              [i \in 1..nb |-> BlogObj(bk[i], IdPool[off + np + i])], aux) :
        sp \in {<<>>, <<SpaceS1>>},
        pk \in [1..np -> PageKinds],
        bk \in [1..nb -> BlogKinds],
        aux \in {AuxEmpty, AuxFull}}

NRecords(root) == Len(root.pages) + Len(root.blogs)

\* The files of at most left records.  Their ids restart at the head of
\* IdPool (a re-export of the same content) or follow the used ones.
XmlRoots(left, used) ==
    UNION {RootsOf(t[1], t[2], t[3]) :
             t \in {u \in (0..left) \X (0..left) \X {0, used} :
                      u[1] + u[2] <= left}}

XmlPaths == {<<"input-xml", "/", "export", IdPool[i], "/", "entities.xml">> :
               i \in 1..MaxPaths}


\* a path add_xml_file does not open
Unread == [kind |-> "unread"]

Contents(left, used) ==
    {Missing, Malformed} \cup
    {[kind |-> "xml", root |-> r] : r \in XmlRoots(left, used)}

ContentRecords(content) == IF content.kind = "xml" THEN NRecords(content.root) ELSE 0

----------------------------------------------------------------------------
\* The ingestion specification: main's loop over the XML files.

AttachmentProcessorInit ==
    [file_mapping |-> EmptyDict, missing_files |-> {}, skipped_files |-> {},
     processed_attachments |-> {}]

NoCall == [op |-> "none"]

\* the first run of the attachment phase, no file copied yet: the loop is
\* at the first of its subfolders and has handed no source path to a copy
\* step
RunInit ==
    [n |-> 1, copies |-> 0, mappings |-> <<>>, subfolder |-> 1,
     subfolders |-> 1, seen |-> {}]

\* the defaults of config.py
DefaultConfig ==
    [UNDERSCORE_HOMEPAGE_TITLES |-> TRUE,
     USE_UNDERSCORE_IN_FILENAMES |-> FALSE,
     CONFLUENCE_BASE_URL |-> <<"https://", "confluence", ".myCompany.com">>,
     INPUT_FOLDER |-> "input",
     OUTPUT_FOLDER |-> "output",
     ATTACHMENTS_PATH |-> "attachments",
     BLOGPOST_PATH |-> "blogposts",
     USE_WIKI_LINKS |-> TRUE,
     USE_ESCAPING_FOR_WIKI_LINKS |-> TRUE,
     FILESERVER_INDICATOR |-> <<"from config">>,
     FILESERVER_REPLACEMENT_ENABLED |-> FALSE,
     BLOGPOST_LINK_INDICATOR |-> <<"Edit">>,
     BLOGPOST_LINK_REPLACEMENT |-> <<" (Blogpost)">>,
     BLOGPOST_LINK_REPLACEMENT_ENABLED |-> TRUE]

Init ==
    /\ nread = 0
    /\ config = DefaultConfig
    /\ xml_processor = XmlProcessorInit
    /\ stats = StatsInit
    /\ attachment_processor = AttachmentProcessorInit
    /\ disk = <<>>
    /\ run = RunInit
    /\ call = NoCall

\* the state main is in once the call has returned r
XmlFileAdded(r, xml_path, content) ==
    /\ xml_processor' = r.x
    /\ stats' = r.stats
    /\ call' = [op |-> "add_xml_file", xml_path |-> xml_path,
                content |-> content,
                known |-> already_processed(xml_processor, xml_path),
                ret |-> r.ret]

\* main calls add_xml_file on the next path of xml_files_to_process; the
\* file system answers with the content the path holds at that moment.
AddXmlFile(xml_path, content) ==
    /\ stats.processed < MaxCalls
    /\ XmlFileAdded(main_add_xml_file(xml_processor, stats, xml_path, content,
                                      config),
                    xml_path, content)
    /\ nread' = IF already_processed(xml_processor, xml_path) THEN nread
                ELSE nread + ContentRecords(content)
    /\ UNCHANGED <<config, attachment_processor, disk, run>>

Next ==
    \E xml_path \in XmlPaths :
        \E content \in IF already_processed(xml_processor, xml_path)
                        THEN {Unread} ELSE Contents(MaxRecs - nread, nread) :
            AddXmlFile(xml_path, content)

Spec == Init /\ [][Next]_vars

----------------------------------------------------------------------------
\* Properties of the ingestion specification.

Classes == {"Page", "BlogPost"}

Titles == {TA, TB, TU}

\* the last step was an add_xml_file that parsed and ingested a file
Ingested ==
    call.op = "add_xml_file" /\ ~call.known /\ call.content.kind = "xml"

\* the Page or BlogPost records of a file that carry a title
TitleGroup(root, class, title) ==
    LET objs == IF class = "Page" THEN root.pages ELSE root.blogs
    IN  {objs[i] : i \in {j \in DOMAIN objs : objs[j].title = title}}

\* every record of a file that carries a title, of either class
TitleSet(root, title) ==
    TitleGroup(root, "Page", title) \cup TitleGroup(root, "BlogPost", title)

\* the records version comparison considers: no drafts, no deleted blog posts
Eligible(group, class) ==
    {o \in group : o.status # "draft"
                   /\ (class = "BlogPost" => o.status # "deleted")}

\* the position of a record in its file
DocIndex(root, class, o) ==
    LET objs == IF class = "Page" THEN root.pages ELSE root.blogs
    IN  CHOOSE i \in DOMAIN objs : objs[i] = o

\* the record this call stores for the canonical record s of a class
StoredAs(s, class, root, pg) ==
    /\ pg.id = s.id
    /\ pg.type = class
    /\ pg.spaceId = (IF class = "Page" THEN first_space_id(root) ELSE s.space)
    /\ pg.title \in {s.title, <<"_">> \o s.title}

\* this call stores the canonical record s: every Page, and every BlogPost
\* that has a space property
StoredByCall(s, class) == class = "Page" \/ s.space # ""

Newest(root, class, group) ==
    CHOOSE s \in Eligible(group, class) :
        \A o \in Eligible(group, class) \ {s} :
            \/ o.hv < s.hv
            \/ o.hv = s.hv /\ DocIndex(root, class, s) < DocIndex(root, class, o)

C3_IdempotentIngestion ==
    [][(call'.op = "add_xml_file"
        /\ call'.xml_path \in xml_processor.processed_xml_files)
       => (call'.ret = TRUE /\ xml_processor' = xml_processor)]_vars

\* C3's case: a second call on an ingested path has returned, and the store
\* holds pages.
C3_Witness ==
    /\ call.op = "add_xml_file"
    /\ call.known
    /\ call.ret = TRUE
    /\ call.xml_path \in xml_processor.processed_xml_files
    /\ xml_processor.page.ord # <<>>

\* C9: add_xml_file on a missing path or a malformed file returns False,
\* does not record the path as processed and leaves the entity store
\* unchanged; main counts the file as processed and as one failure, no
\* success, and goes on to the next path.
C9_PerFileFailure ==
    /\ [][(call'.op = "add_xml_file"
           /\ call'.xml_path \notin xml_processor.processed_xml_files
           /\ call'.content.kind \in {"missing", "malformed"})
          => /\ call'.ret = FALSE
             /\ xml_processor' = xml_processor
             /\ call'.xml_path \notin xml_processor'.processed_xml_files
             /\ stats'.failure = stats.failure + 1
             /\ stats'.success = stats.success
             /\ stats'.processed = stats.processed + 1]_vars
    /\ []((call.op = "add_xml_file" /\ call.ret = FALSE
            /\ stats.processed < MaxCalls)
          => ENABLED AddXmlFile(call.xml_path, call.content))

\* C9's case: a file was ingested successfully after another had failed.
C9_Witness ==
    /\ call.op = "add_xml_file"
    /\ call.ret = TRUE
    /\ ~call.known
    /\ stats.failure = 1
    /\ stats.success = 1
    /\ xml_processor.page.ord # <<>>

\* the records of a class the first pass leaves out for their status:
\* drafts, and deleted blog posts
Excluded(root, class) ==
    LET objs == IF class = "Page" THEN root.pages ELSE root.blogs
    IN  {objs[i] : i \in {j \in DOMAIN objs :
                            \/ objs[j].status = "draft"
                            \/ class = "BlogPost" /\ objs[j].status = "deleted"}}

\* C14: draft and deleted exclusion.  An add_xml_file that ingests a file
\* neither stores a draft record or a deleted BlogPost record of the file
\* in the page store nor makes it canonical: its ID is no new key of the
\* page store and no ID is newly mapped to it by page_id_mapping, whatever
\* its hibernateVersion.
C14_DraftDeletedExcluded ==
    [][(call'.op = "add_xml_file" /\ ~call'.known /\ call'.content.kind = "xml") =>
          \A class \in Classes :
              \A o \in Excluded(call'.content.root, class) :
                  /\ HasKey(xml_processor'.page, o.id) =>
                         HasKey(xml_processor.page, o.id)
                  /\ \A k \in DOMAIN xml_processor'.page_id_mapping :
                         xml_processor'.page_id_mapping[k] = o.id =>
                             /\ k \in DOMAIN xml_processor.page_id_mapping
                             /\ xml_processor.page_id_mapping[k] = o.id]_vars

\* C14's case: the first file ingested holds a draft Page in the greatest
\* version and a current Page in a smaller one, both of title A; the
\* current one is stored, the draft is not and resolves to the current one.
C14_Witness ==
    /\ Ingested
    /\ xml_processor.processed_xml_files = {call.xml_path}
    /\ \E d, c \in TitleGroup(call.content.root, "Page", TA) :
          /\ d.status = "draft" /\ c.status = "current" /\ c.hv < d.hv
          /\ HasKey(xml_processor.page, c.id)
          /\ ~HasKey(xml_processor.page, d.id)
          /\ Get(xml_processor.page_id_mapping, d.id) = c.id

\* the elements of a sequence
Range(seq) == {seq[i] : i \in DOMAIN seq}

\* the ids of the Space objects of a file that the store held before
KnownSpaces(x, root) ==
    {root.spaces[i].id : i \in DOMAIN root.spaces} \cap DOMAIN x.spaces.map

\* the ids of the Page and the BlogPost objects of a file
RecordIds(root) ==
    {root.pages[i].id : i \in DOMAIN root.pages}
    \cup {root.blogs[i].id : i \in DOMAIN root.blogs}

\* C19: space lifecycle.  An add_xml_file that ingests a file with a Space
\* whose ID is in the store already leaves in the stored space every member
\* ID it had before: its pageIds and blogPostIds are the members of before
\* and members taken from the file.
C19_SpaceMembersUnion ==
    [][(call'.op = "add_xml_file" /\ ~call'.known /\ call'.content.kind = "xml") =>
          \A s \in KnownSpaces(xml_processor, call'.content.root) :
              LET old == xml_processor.spaces.map[s]
                  new == xml_processor'.spaces.map[s]
              IN  /\ old.pageIds \subseteq new.pageIds
                  /\ old.blogPostIds \subseteq new.blogPostIds
                  /\ (new.pageIds \cup new.blogPostIds)
                         \ (old.pageIds \cup old.blogPostIds)
                     \subseteq RecordIds(call'.content.root)]_vars

\* the half of C19 that the code keeps: the members a stored space has
\* after the later file are members of before or records of that file
C19_MembersFromFileOrBefore ==
    [][(call'.op = "add_xml_file" /\ ~call'.known /\ call'.content.kind = "xml") =>
          \A s \in KnownSpaces(xml_processor, call'.content.root) :
              LET old == xml_processor.spaces.map[s]
                  new == xml_processor'.spaces.map[s]
              IN  (new.pageIds \cup new.blogPostIds)
                  \subseteq (old.pageIds \cup old.blogPostIds)
                             \cup RecordIds(call'.content.root)]_vars

\* C15: alias-first lookup.  After the first file is ingested, every child
\* record of the file that references the ID of a page which resolves
\* through page_id_mapping to a stored page is attached to that page: body
\* contents, comments, labellings, outgoing links and page properties, and
\* the attachments are listed under the surviving page.
C15_AliasFirstLookup ==
    (Ingested /\ xml_processor.processed_xml_files = {call.xml_path}) =>
        LET root == call.content.root
            x == xml_processor
            Survivor(id) == get_page_by_id(x, id)
        IN  /\ \A i \in DOMAIN root.labellings :
                  LET l == root.labellings[i]
                  IN  (l.label \in DOMAIN x._label_by_id
                         /\ Survivor(l.page) # NoneDict) =>
                          l.label \in Range(Survivor(l.page).labels)
            /\ \A i \in DOMAIN root.comments :
                  LET c == root.comments[i]
                  IN  Survivor(c.container) # NoneDict =>
                          c.id \in Range(Survivor(c.container).comments)
            /\ \A i \in DOMAIN root.links :
                  LET o == root.links[i]
                  IN  Survivor(o.source) # NoneDict =>
                          o.id \in Range(Survivor(o.source).outgoingLinks)
            /\ \A i \in DOMAIN root.props :
                  LET o == root.props[i]
                  IN  Survivor(o.page) # NoneDict =>
                          o.id \in Range(Survivor(o.page).pageProperties)
            /\ \A i \in DOMAIN root.bodies :
                  LET b == root.bodies[i]
                  IN  (b.class = "Page" /\ Survivor(b.content) # NoneDict) =>
                          Survivor(b.content).bodypage = b.id
            /\ \A i \in DOMAIN root.attachments :
                  LET a == root.attachments[i]
                  IN  Survivor(a.container) # NoneDict =>
                          \E j \in DOMAIN get_attachments_by_page_id(x, a.container) :
                              get_attachments_by_page_id(x, a.container)[j].id = a.id

----------------------------------------------------------------------------
\* The link specification: _process_link on the stores that ingesting two
\* exports leaves behind.

SafetyRules == <<"Safety", " ", "Rules">>

\* An export of space ENG: an old and the current version of "Safety Rules",
\* the home page, a blog post, a blog post of a space without key, three
\* attachments and two labels.
LinkExport ==
    [spaces |-> <<[id |-> "s1", key |-> <<"ENG">>, name |-> <<"Engineering">>,
                   homePageId |-> "1234567"],
                  [id |-> "s2", key |-> <<>>, name |-> <<"Old">>,
                   homePageId |-> ""]>>,
     pages |-> <<[id |-> "123", title |-> SafetyRules, hv |-> 3,
                  status |-> "current", space |-> "s1", parent |-> ""],
                 [id |-> "789", title |-> SafetyRules, hv |-> 7,
                  status |-> "current", space |-> "s1", parent |-> ""],
                 [id |-> "1234567", title |-> <<"Home">>, hv |-> 1,
                  status |-> "current", space |-> "s1", parent |-> ""]>>,
     blogs |-> <<[id |-> "2", title |-> <<"News">>, hv |-> 1,
                  status |-> "current", space |-> "s1", parent |-> ""],
                 [id |-> "5", title |-> <<"Lost">>, hv |-> 1,
                  status |-> "current", space |-> "s2", parent |-> ""]>>,
     users |-> <<[id |-> "u1", name |-> <<"bob">>]>>,
     comments |-> <<>>,
     bodies |-> <<>>,
     attachments |-> <<[id |-> "456", title |-> <<"Manual", ".", "pdf">>,
                        container |-> "789", space |-> "s1"],
                       [id |-> "4", title |-> <<"Notes", ".", "txt">>,
                        container |-> "5", space |-> "s2"],
                       [id |-> "1", title |-> <<>>,
                        container |-> "3", space |-> ""]>>,
     links |-> <<>>,
     labels |-> <<[id |-> "42", name |-> <<"safety">>],
                  [id |-> "3", name |-> <<>>]>>,
     labellings |-> <<[label |-> "42", page |-> "789"]>>,
     props |-> <<>>]

\* An export of space WER with one page, its homepage, and of space DOC,
\* which has no homepage.
LinkExport2 ==
    [spaces |-> <<[id |-> "s3", key |-> <<"WER">>, name |-> <<"Werk">>,
                   homePageId |-> "7654321"],
                  [id |-> "s4", key |-> <<"DOC">>, name |-> <<"Docs">>,
                   homePageId |-> ""]>>,
     pages |-> <<[id |-> "7654321", title |-> <<"Overview">>, hv |-> 1,
                  status |-> "current", space |-> "s3", parent |-> ""]>>,
     blogs |-> <<>>, users |-> <<>>, comments |-> <<>>, bodies |-> <<>>,
     attachments |-> <<>>, links |-> <<>>, labels |-> <<>>,
     labellings |-> <<>>, props |-> <<>>]

\* the XML files of the two exports, in folders that verify_xml_file accepts
\* for the spaces ENG and WER
LinkXmlPaths ==
    << <<"input-xml", "/", "Confluence-space-export-", "ENG", "-", "1", "/",
         "entities.xml">>,
       <<"input-xml", "/", "Confluence-space-export-", "WER", "-", "1", "/",
         "entities.xml">> >>

\* the store after add_xml_file on each export of a list
StoreAfter(exports) ==
    LET f[i \in 0..Len(exports)] ==
            IF i = 0 THEN XmlProcessorInit
            ELSE add_xml_file(f[i - 1], StatsInit, LinkXmlPaths[i],
                              [kind |-> "xml", root |-> exports[i]],
                              DefaultConfig).x
    IN  f[Len(exports)]

LinkStores ==
    {StoreAfter(exports) :
        exports \in {<<>>, <<LinkExport>>, <<LinkExport, LinkExport2>>}}

\* the attachment folder of the XML export of ENG (versioned scheme) and
\* that of the HTML export of ENG (direct scheme)
XmlAttachmentsDir == join(dirname(LinkXmlPaths[1]), <<"attachments">>)

SpaceAttachmentsDir == <<"input", "/", "ENG", "/", "attachments">>

\* The attachment files an input tree can hold, in the order of the file
\* system: two versions of attachment 456 of page 789, its file in the
\* per-space tree, a file of no known attachment, the file filed under the
\* old version 123 of the page, a file of an unknown page, and the file of
\* attachment 1, which has neither title nor extension; then a file named 0
\* and a file with a name that is no number beside the versions.
InputPaths ==
    << join(XmlAttachmentsDir, <<"789", "/", "456", "/", "1">>),
       join(XmlAttachmentsDir, <<"789", "/", "456", "/", "2">>),
       join(SpaceAttachmentsDir, <<"789", "/", "456", ".", "pdf">>),
       join(SpaceAttachmentsDir, <<"789", "/", "x", ".", "png">>),
       join(SpaceAttachmentsDir, <<"123", "/", "456", ".", "pdf">>),
       join(SpaceAttachmentsDir, <<"3", "/", "4", ".", "txt">>),
       join(SpaceAttachmentsDir, <<"789", "/", "1">>),
       join(XmlAttachmentsDir, <<"789", "/", "456", "/", "0">>),
       join(XmlAttachmentsDir, <<"789", "/", "456", "/", "thumb">>) >>

\* the mapping tables of the attachment phase: none, and the table after
\* process_space_attachments on a tree that holds the file of attachment 456
LinkMappings ==
    {EmptyDict,
     process_space_attachments(
         attachment_state(AttachmentProcessorInit,
                          InputPaths[3] :> [size |-> 1, mtime |-> 1]),
         StoreAfter(<<LinkExport>>), DefaultConfig, <<"ENG">>, InputPaths
     ).ap.file_mapping}

PagesPrefix == <<"/", "pages", "/">>

ViewPage == PagesPrefix \o <<"viewpage.action", "?", "pageId=">>

EditBlogPost == PagesPrefix \o <<"editblogpost.action", "?", "pageId=">>

ViewLabel == <<"/", "labels", "/", "viewlabel.action", "?", "ids=">>

RawLinks ==
    { <<>>, <<" ">>,
      <<"https://", "example", ".com", "/", "x">>,
      <<"http://", "example", ".com">>,
      <<"https://", "confluence", ".myCompany.com">> \o ViewPage \o <<"789">>,
      <<"https://", "confluence", ".myCompany.com", "?", "createDialogSpaceKey",
        "=", "ENG">>,
      <<"https://", "confluence", ".other.org", "/", "page", ".html">>,
      <<"https://", "wiki", ".corp.com">> \o ViewPage \o <<"789">>,
      <<"file://", "/", "srv", "/", "x", ".", "pdf">>,
      <<"index", ".html">>,
      <<"attachments", "/", "123", "/", "456", ".", "pdf">>,
      <<"download", "/", "attachments", "/", "123", "/", "456", ".", "pdf",
        "?", "version=", "1">>,
      <<"attachments", "/", "789", "/", "456", ".", "pdf">>,
      <<"attachments", "/", "789", "/", "Manual", ".", "pdf">>,
      <<"attachments", "/", "123", "/", "Manual", ".", "pdf">>,
      <<"attachments", "/", "789", "/", "pdf">>,
      <<"attachments", "/", "3", "/", "x", ".", "png">>,
      <<"attachments", "/", "x", ".", "png">>,
      <<"attachments", "/", "2", "/", "4", ".", "txt">>,
      <<"attachments", "/", "2", "/", "1">>,
      <<"attachments", "/", "123", "/">>,
      ViewPage \o <<"789">>, ViewPage \o <<"123">>, ViewPage \o <<"2">>,
      ViewPage \o <<"5">>, ViewPage \o <<"3">>, ViewPage \o <<"abc">>,
      ViewPage \o <<"7654321">>,
      EditBlogPost \o <<"2">>, EditBlogPost \o <<"5">>,
      EditBlogPost \o <<"789">>, EditBlogPost \o <<"3">>,
      EditBlogPost \o <<"3", "&", "from=", "/", "label", "/", "foo">>,
      <<"/", "label", "/", "safety">>,
      ViewLabel \o <<"42">>, ViewLabel \o <<"3">>, ViewLabel \o <<"5">>,
      ViewLabel \o <<"abc">>,
      <<"/", "display", "/", "~", "bob">>,
      <<"userkey", "/", "u1">>, <<"userkey", "/", "zz">>,
      <<"/", "display", "/", "ENG", "/", "Safety", "+", "Rules">>,
      <<"/", "display", "/", "ENG">>,
      <<"/", "display", "/", "XX", "/">>,
      <<"userLogoLink">>,
      <<"data-username=\"", "bob", "\"">>,
      <<"Home", "_", "1234567", ".html">>,
      <<"1234567", ".html">>,
      <<"Overview", "_", "7654321", ".html">>,
      <<"7654321", ".html">>,
      <<"Title", "_", "123", ".html">>,
      <<"Other", ".html">>,
      <<"sub", "/", ".html">>,
      <<"page", ".html", "#", "sec">>,
      <<"Manual", ".", "pdf">>,
      <<"pdf">>,
      <<"just", " ", "text">>,
      <<".">> }

CurrentDirs ==
    {<<>>, <<"ENG">>, <<"ENG", "/", "blogposts">>, <<"XX">>, <<"WER">>, <<"DOC">>}

\* the configurations of the link specification: the defaults of config.py,
\* and a base URL set in config.ps1 or with --base-url
LinkConfigs ==
    {DefaultConfig,
     [DefaultConfig EXCEPT !.CONFLUENCE_BASE_URL = <<"https://", "wiki", ".corp.com">>]}

LinkInit ==
    /\ nread = 0
    /\ config \in LinkConfigs
    /\ xml_processor \in LinkStores
    /\ stats = StatsInit
    /\ attachment_processor \in
          {[AttachmentProcessorInit EXCEPT !.file_mapping = m] : m \in LinkMappings}
    /\ disk = <<>>
    /\ run = RunInit
    /\ call = NoCall

\* the call and the return r of one _process_link
LinkProcessed(r, link, current_dir) ==
    call' = [op |-> "_process_link", link |-> link,
             current_dir |-> current_dir, at |-> r.at, rule |-> r.rule,
             ret |-> r.ret]

\* replace_link hands one raw link of a Markdown file in current_dir to
\* _process_link.  The call changes none of the tables, so a behaviour
\* follows one call.
ProcessLink(link, current_dir) ==
    /\ call = NoCall
    /\ LinkProcessed(process_link_at(link, current_dir, xml_processor,
                                     attachment_processor, config),
                     link, current_dir)
    /\ UNCHANGED <<nread, config, xml_processor, stats, attachment_processor,
                   disk, run>>

LinkNext == \E link \in RawLinks, current_dir \in CurrentDirs :
                ProcessLink(link, current_dir)

LinkSpec == LinkInit /\ [][LinkNext]_vars

----------------------------------------------------------------------------
\* Properties of the link specification.

IsLinkCall == call.op = "_process_link"

\* the key of the space of the page an id resolves to through the alias
\* table, <<>> when the page is unknown or its space has no key
SpaceKeyOfPage(page_id) ==
    LET pg == get_page_by_id(xml_processor, page_id)
    IN  IF pg = NoneDict THEN <<>>
        ELSE IF pg.spaceId \in DOMAIN xml_processor.spaces.map
        THEN xml_processor.spaces.map[pg.spaceId].key
        ELSE <<>>

\* The call resolved 'attachments/<P>/<A>...' where attachment A is known
\* and its containerContent_id differs from P.
ReparentedAttachmentCall ==
    /\ IsLinkCall
    /\ call.at = "attachment"
    /\ attachment_id_of(call.link) \in DOMAIN xml_processor.attachments.map
    /\ xml_processor.attachments.map[attachment_id_of(call.link)].containerContent_id
          # attachment_page_id_of(call.link, config)

\* C4: attachment parent authority.  When _process_link resolves
\* 'attachments/<P>/<A>...' and attachment A is known with a container C
\* other than P, the path is built from C and never from P: it holds the
\* segment attachments/<C>/ and not attachments/<P>/, and when page C is
\* stored in a space with key K it is K/attachments/<C>/<title of A>.
C4_ParentAuthority ==
    ReparentedAttachmentCall =>
        LET A == xml_processor.attachments.map[attachment_id_of(call.link)]
            C == A.containerContent_id
            P == attachment_page_id_of(call.link, config)
            K == SpaceKeyOfPage(C)
        IN  /\ K # <<>> =>
                 call.ret = K \o <<"/", "attachments", "/", C, "/">> \o A.title
            /\ Contains(call.ret, <<"attachments", "/">> \o id_text(C) \o <<"/">>)
            /\ ~Contains(call.ret, <<"attachments", "/", P, "/">>)

\* attachments/123/456.pdf, attachment 456 of page 789 in space ENG
C4_Witness ==
    /\ ReparentedAttachmentCall
    /\ call.link = <<"attachments", "/", "123", "/", "456", ".", "pdf">>
    /\ SpaceKeyOfPage("789") = <<"ENG">>
    /\ call.ret = <<"ENG", "/", "attachments", "/", "789", "/", "Manual", ".", "pdf">>

\* The match condition of each rule of the documented chain, on the link
\* text alone.
RuleMatches(r, link) ==
    CASE r = 1  -> /\ StartsWith(link, <<"http://">>) \/ StartsWith(link, <<"https://">>)
                   /\ ~StartsWith(link, <<"https://", "confluence">>)
      [] r = 2  -> StartsWith(link, <<"file://">>)
      [] r = 3  -> link = <<"index", ".html">>
      [] r = 4  -> Contains(link, <<"attachments", "/">>)
      [] r = 5  -> /\ Contains(link, <<"pageId=">>)
                   /\ \/ Contains(link, PagesPrefix \o <<"viewpage.action">>)
                      \/ Contains(link, PagesPrefix \o <<"editblogpost.action">>)
      [] r = 6  -> \/ Contains(link, <<"/", "label", "/">>)
                   \/ Contains(link, <<"/", "labels", "/">>)
      [] r = 7  -> Contains(link, <<"/", "display", "/", "~">>)
      [] r = 8  -> Contains(link, <<"/", "display", "/">>)
      [] r = 9  -> /\ Len(link) >= 2
                   /\ link[Len(link)] = ".html"
                   /\ is_page_id_run(link[Len(link) - 1])
      [] r = 10 -> EndsWith(link, <<".html">>)
      [] r = 11 -> StartsWith(link, config.CONFLUENCE_BASE_URL
                                        \o <<"?", "createDialogSpaceKey">>)
      [] OTHER  -> TRUE

\* the first rule of the documented chain that the link matches
FirstMatchingRule(link) ==
    CHOOSE r \in 1..12 :
        RuleMatches(r, link) /\ \A q \in 1..(r - 1) : ~RuleMatches(q, link)

\* whether the id after a key of the link is that of a stored page
PageIsKnown(id) == get_page_by_id(xml_processor, id) # NoneDict

\* whether the file mapping has an entry for the sanitized link text
MappingHit(link) ==
    LET t == _sanitize_filename(link, config)
        m == attachment_processor.file_mapping
    IN  /\ t # <<>>
        /\ \E p \in DOMAIN m.map : Contains(p, t) /\ Contains(basename(m.map[p]), t)

ReturnOrder ==
    <<"empty", "external", "file", "index", "attachment", "viewpage",
      "editblogpost", "label", "labels", "display_user", "display",
      "user_logo", "underscore_id", "bare_id", "html", "create_dialog",
      "file_mapping", "default">>

\* Whether a return statement decides the link: its match condition holds
\* and, where the code passes a missed lookup on, the lookup hits.
Decides(at, link) ==
    CASE at = "empty"         -> strip(link) = <<>>
      [] at = "external"      -> RuleMatches(1, link)
      [] at = "file"          -> RuleMatches(2, link)
      [] at = "index"         -> RuleMatches(3, link)
      [] at = "attachment"    -> RuleMatches(4, link)
      [] at = "viewpage"      ->
             /\ Contains(link, PagesPrefix \o <<"viewpage.action">>)
             /\ Contains(link, <<"pageId=">>)
             /\ digits_after(link, <<"pageId=">>) # NoneVal
      [] at = "editblogpost"  ->
             /\ Contains(link, PagesPrefix \o <<"editblogpost.action">>)
             /\ Contains(link, <<"pageId=">>)
             /\ digits_after(link, <<"pageId=">>) # NoneVal
             /\ PageIsKnown(digits_after(link, <<"pageId=">>))
      [] at = "label"         -> Contains(link, <<"/", "label", "/">>)
      [] at = "labels"        ->
             /\ Contains(link, <<"/", "labels", "/">>)
             /\ digits_after(link, <<"ids=">>) # NoneVal
      [] at = "display_user"  -> RuleMatches(7, link)
      [] at = "display"       -> RuleMatches(8, link)
      [] at = "user_logo"     ->
             \E i \in 1..Len(link) : link[i] \in {"userLogoLink", "data-username=\""}
      [] at = "underscore_id" ->
             /\ RuleMatches(9, link)
             /\ Len(link) >= 3 /\ link[Len(link) - 2] = "_"
             /\ PageIsKnown(link[Len(link) - 1])
      [] at = "bare_id"       ->
             RuleMatches(9, link) /\ PageIsKnown(link[Len(link) - 1])
      [] at = "html"          -> RuleMatches(10, link)
      [] at = "create_dialog" -> RuleMatches(11, link)
      [] at = "file_mapping"  -> MappingHit(link)
      [] OTHER                -> TRUE

FirstDeciding(link) ==
    ReturnOrder[CHOOSE i \in 1..Len(ReturnOrder) :
                    /\ Decides(ReturnOrder[i], link)
                    /\ \A j \in 1..(i - 1) : ~Decides(ReturnOrder[j], link)]

C6_NeverRaises ==
    IsLinkCall => (call.ret # Raised /\ call.ret # Fall)

\* a label link whose label is stored without a name, and a link found in
\* the mapping table: the two lookups that subscript or call relpath
C6_Witness ==
    /\ IsLinkCall
    /\ \/ /\ call.at = "labels"
          /\ call.link = ViewLabel \o <<"3">>
          /\ "3" \in DOMAIN xml_processor._label_by_id
          /\ call.ret = <<"#">>
       \/ /\ call.at = "file_mapping"
          /\ call.ret # <<>>

\* C10: page-by-ID links.  A view or edit link whose id resolves through
\* the alias table to a stored page in a space with key K becomes
\* K/<blogpost path>/<title>.md for a BlogPost and K/<title>.md otherwise.
C10_PageByIdBranchesOnType ==
    (IsLinkCall /\ call.at \in {"viewpage", "editblogpost"}
        /\ SpaceKeyOfPage(digits_after(call.link, <<"pageId=">>)) # <<>>) =>
        LET pg == get_page_by_id(xml_processor,
                                 digits_after(call.link, <<"pageId=">>))
            K == SpaceKeyOfPage(digits_after(call.link, <<"pageId=">>))
        IN  call.ret = IF pg.type = "BlogPost"
                       THEN K \o <<"/", config.BLOGPOST_PATH, "/">> \o pg.title
                              \o <<".md">>
                       ELSE K \o <<"/">> \o pg.title \o <<".md">>

\* C11: label links.  When the first return statement that decides the
\* link is that of a label rule, a link with '/label/' becomes '#' and its
\* last path segment, and a link with '/labels/' and 'ids=<n>' becomes
\* '#<name>' of label n of the label-ID index, '#label_<n>' when the index
\* has no label n.
C11_LabelLinks ==
    (IsLinkCall /\ FirstDeciding(call.link) \in {"label", "labels"}) =>
        IF Contains(call.link, <<"/", "label", "/">>)
        THEN call.ret = <<"#">> \o basename(call.link)
        ELSE LET n == digits_after(call.link, <<"ids=">>)
                 idx == xml_processor._label_by_id
             IN  call.ret = IF n \in DOMAIN idx THEN <<"#">> \o idx[n].name
                            ELSE <<"#", "label_", n>>

\* label 42 of the index is named, label 5 is not in it
C11_Witness ==
    /\ IsLinkCall
    /\ "42" \in DOMAIN xml_processor._label_by_id
    /\ "5" \notin DOMAIN xml_processor._label_by_id
    /\ \/ call.link = ViewLabel \o <<"42">> /\ call.ret = <<"#", "safety">>
       \/ call.link = ViewLabel \o <<"5">> /\ call.ret = <<"#", "label_", "5">>

\* C12: external links.  A link that starts with http:// or https:// is
\* returned unchanged by the rule for external links exactly when it does
\* not start with the configured CONFLUENCE_BASE_URL.
C12_ExternalIffNotBaseUrl ==
    (/\ IsLinkCall
     /\ StartsWith(call.link, <<"http://">>) \/ StartsWith(call.link, <<"https://">>))
    => ((call.at = "external" /\ call.ret = call.link)
            <=> ~StartsWith(call.link, config.CONFLUENCE_BASE_URL))

\* C13: user mentions.  A link '/display/~<user>' that no earlier return
\* statement decides becomes '@<user>', and a link 'userkey/<key>' becomes
\* '@<name>' of the user stored under <key>, '@<key>' when no user is.
C13_UserMentions ==
    IsLinkCall =>
        /\ FirstDeciding(call.link) = "display_user" =>
               call.ret = <<"@">> \o strip(after_first(call.link,
                                                       <<"/", "display", "/", "~">>))
        /\ (Len(call.link) = 3 /\ SubSeq(call.link, 1, 2) = <<"userkey", "/">>) =>
               call.ret = IF call.link[3] \in DOMAIN xml_processor.users
                          THEN <<"@">> \o xml_processor.users[call.link[3]].name
                          ELSE <<"@", call.link[3]>>

\* the '/display/~<user>' half of C13 alone
C13_DisplayUserMention ==
    (IsLinkCall /\ FirstDeciding(call.link) = "display_user") =>
        call.ret = <<"@">> \o strip(after_first(call.link,
                                                <<"/", "display", "/", "~">>))

----------------------------------------------------------------------------
\* The attachment specification: the attachment phase of main, which calls
\* process_xml_attachments and then process_space_attachments for every
\* subfolder of the input folder, and the program run again on the same
\* input and on the output it left behind.  The first subfolder is the
\* space ENG; a further subfolder is a space without attachment files for
\* which verify_xml_file answers the same XML file.

FileStats == [size : 1..MaxStat, mtime : 1..MaxStat]

InputTrees ==
    UNION {[S -> FileStats] :
             S \in {T \in SUBSET {InputPaths[i] : i \in 1..Len(InputPaths)} :
                      Cardinality(T) <= MaxFiles}}

\* the orders in which os.listdir reports the files
ListingOrders ==
    {InputPaths, [i \in 1..Len(InputPaths) |-> InputPaths[Len(InputPaths) + 1 - i]]}

AttInit ==
    /\ nread = 0
    /\ config = DefaultConfig
    /\ xml_processor = StoreAfter(<<LinkExport>>)
    /\ stats = StatsInit
    /\ attachment_processor = AttachmentProcessorInit
    /\ disk \in InputTrees
    /\ run \in {[RunInit EXCEPT !.subfolders = k] : k \in 1..MaxSubfolders}
    /\ call = NoCall

\* the subfolders of the input folder, in the order of os.walk
space_dir(i) == IF i = 1 THEN <<"ENG">> ELSE <<"DOC">>

\* the source paths of the should_copy_file calls of a processing call
sources(checks) == {checks[i].src : i \in 1..Len(checks)}

\* the run after a processing call of its loop
processed(r, st, subfolder) ==
    [r EXCEPT !.copies = @ + st.copies, !.subfolder = subfolder,
              !.seen = @ \cup sources(st.checks)]

\* main: link_checker.attachment_processor.process_xml_attachments(xml_path),
\* for the first subfolder or for the one after a finished subfolder
ProcessXmlAttachments(order) ==
    /\ call.op \in {"none", "main", "process_space_attachments"}
    /\ call.op = "process_space_attachments" => run.subfolder < run.subfolders
    /\ LET st == process_xml_attachments(
                     attachment_state(attachment_processor, disk),
                     xml_processor, config, LinkXmlPaths[1], LinkExport, order)
       IN  /\ attachment_processor' = st.ap
           /\ disk' = st.files
           /\ run' = processed(run, st,
                               IF call.op = "process_space_attachments"
                               THEN run.subfolder + 1 ELSE run.subfolder)
           /\ call' = [op |-> "process_xml_attachments", checks |-> st.checks,
                       before |-> run.seen]
    /\ UNCHANGED <<nread, config, xml_processor, stats>>

\* main: link_checker.attachment_processor.process_space_attachments(space_dir)
ProcessSpaceAttachments(order) ==
    /\ call.op = "process_xml_attachments"
    /\ LET st == process_space_attachments(
                     attachment_state(attachment_processor, disk),
                     xml_processor, config, space_dir(run.subfolder), order)
       IN  /\ attachment_processor' = st.ap
           /\ disk' = st.files
           /\ run' = processed(run, st, run.subfolder)
           /\ call' = [op |-> "process_space_attachments", checks |-> st.checks,
                       before |-> run.seen]
    /\ UNCHANGED <<nread, config, xml_processor, stats>>

\* The program is started again: main builds a new AttachmentProcessor, and
\* ingesting the unchanged XML file gives the store of the run before.
RunAgain ==
    /\ call.op = "process_space_attachments"
    /\ run.subfolder = run.subfolders
    /\ run.n < MaxRuns
    /\ attachment_processor' = AttachmentProcessorInit
    /\ run' = [run EXCEPT !.n = @ + 1, !.copies = 0, !.subfolder = 1,
                          !.seen = {},
                          !.mappings = Append(@, attachment_processor.file_mapping)]
    /\ call' = [op |-> "main"]
    /\ UNCHANGED <<nread, config, xml_processor, stats, disk>>

AttNext ==
    \/ \E order \in ListingOrders : ProcessXmlAttachments(order)
    \/ \E order \in ListingOrders : ProcessSpaceAttachments(order)
    \/ RunAgain

AttSpec == AttInit /\ [][AttNext]_vars

----------------------------------------------------------------------------
\* Properties of the attachment specification.

\* a later run of the attachment phase has ended
LaterRunDone ==
    /\ run.n >= 2
    /\ call.op = "process_space_attachments"
    /\ run.subfolder = run.subfolders

\* C7: idempotent attachment copy.  A second run of the attachment phase on
\* unchanged input and on the output of the first run copies no file and
\* ends with the file_mapping table of the first run.
C7_IdempotentAttachmentCopy ==
    LaterRunDone =>
        /\ run.copies = 0
        /\ attachment_processor.file_mapping.map = run.mappings[run.n - 1].map

\* the two halves of C7, to tell which one fails
C7_NoCopyInLaterRun == LaterRunDone => run.copies = 0

C7_SameMappingInLaterRun ==
    LaterRunDone =>
        attachment_processor.file_mapping.map = run.mappings[run.n - 1].map

\* C8: copy policy.  should_copy_file(src, dst) answers true exactly when
\* dst does not exist, or the sizes of src and dst differ, or the sizes are
\* equal and src was modified strictly after dst.
C8_CopyPolicy ==
    call.op \in {"process_xml_attachments", "process_space_attachments"} =>
        \A i \in 1..Len(call.checks) :
            LET c == call.checks[i]
            IN  c.ret <=> \/ ~c.dst_exists
                          \/ c.src_stat.size # c.dst_stat.size
                          \/ /\ c.src_stat.size = c.dst_stat.size
                             /\ c.src_stat.mtime > c.dst_stat.mtime

\* a call of the second run in which should_copy_file leaves alone an
\* existing file of equal size and equal modification time
C8_Witness ==
    /\ call.op = "process_space_attachments"
    /\ run.n = 2
    /\ \E i \in 1..Len(call.checks) :
          LET c == call.checks[i]
          IN  /\ c.dst_exists
              /\ c.src_stat.size = c.dst_stat.size
              /\ c.src_stat.mtime = c.dst_stat.mtime
              /\ ~c.ret

\* the attachment ID an input file is named after: the folder below the
\* page folder (versioned scheme) or the file name up to its dot (direct)
SourceAttachmentId(src) ==
    IF StartsWith(src, XmlAttachmentsDir \o <<"/">>)
    THEN src[Len(XmlAttachmentsDir) + 4]
    ELSE src[Len(SpaceAttachmentsDir) + 4]

AttachmentCall ==
    call.op \in {"process_xml_attachments", "process_space_attachments"}

\* C16: canonical output path.  Every file the attachment processor maps,
\* whose attachment has a title and a parent page known to the store, is
\* mapped to <output>/<space key>/attachments/<parent>/<title>, the parent
\* being the attachment's containerContent_id resolved through
\* page_id_mapping, and not the folder the file lies in.
C16_CanonicalOutputPath ==
    AttachmentCall =>
        \A src \in DOMAIN attachment_processor.file_mapping.map :
            LET id == SourceAttachmentId(src)
                atts == xml_processor.attachments.map
            IN  (/\ id \in DOMAIN atts
                 /\ atts[id].title # <<>>
                 /\ PageIsKnown(atts[id].containerContent_id)
                 /\ SpaceKeyOfPage(atts[id].containerContent_id) # <<>>) =>
                    attachment_processor.file_mapping.map[src] =
                        <<config.OUTPUT_FOLDER, "/">>
                        \o SpaceKeyOfPage(atts[id].containerContent_id)
                        \o <<"/", config.ATTACHMENTS_PATH, "/",
                             get_page_by_id(xml_processor,
                                            atts[id].containerContent_id).id, "/">>
                        \o atts[id].title

\* the input files of the tree
InputFiles == DOMAIN disk \cap Range(InputPaths)

IsVersioned(src) == StartsWith(src, XmlAttachmentsDir \o <<"/">>)

\* the page folder an input file lies in
SourcePageFolder(src) ==
    IF IsVersioned(src) THEN src[Len(XmlAttachmentsDir) + 2]
    ELSE src[Len(SpaceAttachmentsDir) + 2]

\* an input file the attachment processor handles: its attachment and the
\* page of its folder are known, and in the versioned scheme it is the
\* greatest version of its attachment folder
HandledSource(src) ==
    /\ SourceAttachmentId(src) \in DOMAIN xml_processor.attachments.map
    /\ PageIsKnown(SourcePageFolder(src))
    /\ IsVersioned(src) =>
           \A q \in InputFiles :
               (IsVersioned(q) /\ dirname(q) = dirname(src)) =>
                   version_number(<<q[Len(q)]>>) <= version_number(<<src[Len(src)]>>)

\* C17: mapping recorded even without a copy.  After both processing
\* methods have run, file_mapping has an entry for every input file of a
\* known attachment, whether the file was copied or the copy was skipped.
C17_MappingRecordedWithoutCopy ==
    call.op = "process_space_attachments" =>
        \A src \in InputFiles :
            HandledSource(src) =>
                src \in DOMAIN attachment_processor.file_mapping.map

\* C18: source-path de-duplication.  Once a source path has been handed to
\* the copy step in a run, a later call of process_xml_attachments or
\* process_space_attachments of the same run that meets the path again
\* copies no file.
C18_NoSecondCopy ==
    AttachmentCall =>
        \A i \in 1..Len(call.checks) :
            call.checks[i].src \in call.before => ~call.checks[i].ret

\* the direct half of C18 alone: a file of the per-space tree that was
\* handled before is not handed to should_copy_file again
C18_DirectPathSkipped ==
    AttachmentCall =>
        \A i \in 1..Len(call.checks) :
            call.checks[i].src \in call.before => IsVersioned(call.checks[i].src)

----------------------------------------------------------------------------
\* The version directories of the input: the directories below the
\* attachments folder beside the XML file that hold a file.
VersionDirs ==
    {dirname(p) : p \in {q \in DOMAIN disk :
                           StartsWith(q, XmlAttachmentsDir \o <<"/">>)}}

\* the directory attachments/<pageId>/<attachmentId> of a stored attachment
\* of a stored page
KnownVersionDir(d) ==
    /\ Len(d) = Len(XmlAttachmentsDir) + 4
    /\ get_page_by_id(xml_processor, d[Len(XmlAttachmentsDir) + 2]) # NoneDict
    /\ get_attachment_by_id(xml_processor, d[Len(d)]) # NoneDict

FilesOf(d) == {p \in DOMAIN disk : dirname(p) = d}

FileVersion(p) == version_number(SubSeq(p, Len(dirname(p)) + 2, Len(p)))

\* the files of d named by an integer of at least n
VersionFiles(d, n) == {p \in FilesOf(d) : FileVersion(p) >= n}

GreatestVersion(d, n) ==
    CHOOSE p \in VersionFiles(d, n) :
        \A q \in VersionFiles(d, n) : FileVersion(p) >= FileVersion(q)

MappedFrom(d) == {p \in DOMAIN attachment_processor.file_mapping.map : dirname(p) = d}

CheckedFrom(d) ==
    {i \in 1..Len(call.checks) : dirname(call.checks[i].src) = d}

CopiedFrom(d) ==
    {call.checks[i].src : i \in {j \in CheckedFrom(d) : call.checks[j].ret}}

C24_VersionZeroSkipped ==
    /\ call.op = "process_xml_attachments"
    /\ \E d \in VersionDirs :
           /\ KnownVersionDir(d)
           /\ VersionFiles(d, 0) # {}
           /\ MappedFrom(d) = {}

----------------------------------------------------------------------------

\* The sanitization specification: _sanitize_filename called on the titles
\* and file names an export can hold, under both settings of
\* USE_UNDERSCORE_IN_FILENAMES.

SanTokens == {"A", ".", " ", "%20", "NBSP", "ZWSP", "/", "<![CDATA[", "]]>"}

Filenames == UNION {[1..n -> SanTokens] : n \in 0..MaxLen}

SanInit ==
    /\ nread = 0
    /\ config \in {[DefaultConfig EXCEPT !.USE_UNDERSCORE_IN_FILENAMES = u] :
                     u \in BOOLEAN}
    /\ xml_processor = XmlProcessorInit
    /\ stats = StatsInit
    /\ attachment_processor = AttachmentProcessorInit
    /\ disk = <<>>
    /\ run = RunInit
    /\ call = NoCall

\* one call of XmlProcessor._sanitize_filename and what it returns
SanitizeFilename(filename) ==
    /\ call' = [op |-> "_sanitize_filename", filename |-> filename,
                ret |-> _sanitize_filename(filename, config)]
    /\ UNCHANGED <<nread, config, xml_processor, stats, attachment_processor,
                   disk, run>>

SanNext == \E filename \in Filenames : SanitizeFilename(filename)

SanSpec == SanInit /\ [][SanNext]_vars

\* C20: sanitization fallback.  _sanitize_filename returns 'unnamed' for an
\* empty input and whenever decoding, normalising, filtering, trimming and
\* replacing leave nothing; its result is never empty, and it equals the
\* input only when the steps leave the input as it is.
C20_SanitizationFallback ==
    call.op = "_sanitize_filename" =>
        /\ (\/ call.filename = <<>>
            \/ sanitize_steps(call.filename, config) = <<>>) =>
               call.ret = <<"unnamed">>
        /\ call.ret # <<>>
        /\ call.ret = call.filename =>
               sanitize_steps(call.filename, config) = call.filename

\* the parts of C20 the code keeps: 'unnamed' for the empty input, and no
\* empty result
C20_NeverEmpty ==
    call.op = "_sanitize_filename" =>
        /\ call.filename = <<>> => call.ret = <<"unnamed">>
        /\ call.ret # <<>>

\* the homepage title _process_link can give for a space: the title
\* get_page_title_by_id finds for its homePageId, NoneText when the space
\* has no homePageId or no title is found
HomepageTitle(space_info) ==
    IF space_info = NoneDict THEN NoneText
    ELSE IF space_info.homePageId = "" THEN NoneText
    ELSE get_page_title_by_id(xml_processor, space_info.homePageId)

\* the space of the current directory of the call, NoneDict when unknown
DirSpace ==
    get_space_by_key(xml_processor, dir_space_key(call.current_dir))

\* the stored spaces that have a homepage title, in the order of the store
SpacesWithHomepage ==
    SelectSeq(xml_processor.spaces.ord,
              LAMBDA sid : is_title(HomepageTitle(xml_processor.spaces.map[sid])))

IsIndexCall == IsLinkCall /\ call.link = <<"index", ".html">>

\* C22 as stated: for the link 'index.html' _process_link returns the
\* homepage title of the space of the current directory when that space is
\* known, the homepage of another space only when the space of the current
\* directory cannot be resolved, and 'index.md' when no space has a
\* resolvable homepage.
C22_OtherSpaceOnlyWhenUnresolved ==
    IsIndexCall =>
        /\ is_title(HomepageTitle(DirSpace)) =>
               call.ret = HomepageTitle(DirSpace) \o <<".md">>
        /\ (\E sid \in Range(SpacesWithHomepage) :
               /\ DirSpace # NoneDict => sid # DirSpace.id
               /\ call.ret = HomepageTitle(xml_processor.spaces.map[sid])
                             \o <<".md">>)
           => DirSpace = NoneDict
        /\ SpacesWithHomepage = <<>> => call.ret = <<"index", ".md">>

\* C22: for the link 'index.html' _process_link returns the homepage title
\* of the space of the current directory when that space is known and has a
\* homepage title; when the space is unknown or has none, the homepage title
\* of the first stored space that has one; and 'index.md' when no space has.
C22_IndexHomepage ==
    IsIndexCall =>
        call.ret =
            IF is_title(HomepageTitle(DirSpace))
            THEN HomepageTitle(DirSpace) \o <<".md">>
            ELSE IF SpacesWithHomepage # <<>>
            THEN HomepageTitle(xml_processor.spaces.map[SpacesWithHomepage[1]])
                 \o <<".md">>
            ELSE <<"index", ".md">>

\* C22's case: the current directory is that of the known space DOC, which
\* has no homepage, and the link leads to the homepage of ENG
C22_Witness ==
    /\ IsIndexCall
    /\ call.current_dir = <<"DOC">>
    /\ DirSpace # NoneDict
    /\ HomepageTitle(DirSpace) = NoneText
    /\ call.ret = <<"_", "Home", ".md">>

\* the current directory is that of WER, whose homepage is not the first of
\* the store
C22_OwnHomepageCall ==
    /\ IsIndexCall
    /\ call.current_dir = <<"WER">>
    /\ DirSpace # NoneDict
    /\ call.ret = <<"_", "Overview", ".md">>

----------------------------------------------------------------------------
\* The formatting specification: LinkChecker.convert_wikilink called with
\* and without description, embedded or not, and the replace_link of
\* _fix_md_crosslinks on the links of a Markdown file of space ENG, under
\* every setting of USE_WIKI_LINKS and USE_ESCAPING_FOR_WIKI_LINKS.

FmtConfigs ==
    {[DefaultConfig EXCEPT !.USE_WIKI_LINKS = w,
                           !.USE_ESCAPING_FOR_WIKI_LINKS = e] :
        w \in BOOLEAN, e \in BOOLEAN}

Descriptions == {NoneText, <<>>, <<"Manual">>, <<"Edit">>}

\* targets as _process_link returns them, an external one and a file link
Targets ==
    {<<"Safety", " ", "Rules", ".md">>,
     <<"ENG", "/", "attachments", "/", "789", "/", "Manual", ".", "pdf">>,
     <<"https://", "example", ".com", "/", "x">>,
     <<"file://", "srv", "\\", "my", " ", "x", ".", "pdf">>}

\* the links of a Markdown file: the raw links that are no external links
FileLinks ==
    {l \in RawLinks : l # <<>> /\ l[1] \notin {"https://", "http://"}}
    \cup {<<"<", "Other", ".html", ">">>}

FmtInit ==
    /\ nread = 0
    /\ config \in FmtConfigs
    /\ xml_processor = StoreAfter(<<LinkExport>>)
    /\ stats = StatsInit
    /\ attachment_processor = AttachmentProcessorInit
    /\ disk = <<>>
    /\ run = RunInit
    /\ call = NoCall

\* one call of LinkChecker.convert_wikilink
ConvertWikilink(description, link, is_embedded) ==
    /\ call' = [op |-> "convert_wikilink", description |-> description,
                link |-> link, is_embedded |-> is_embedded,
                ret |-> convert_wikilink(description, link, is_embedded, config)]
    /\ UNCHANGED <<nread, config, xml_processor, stats, attachment_processor,
                   disk, run>>

\* link_pattern.sub calls replace_link on one link of a file in current_dir
ReplaceLink(description, link, current_dir) ==
    /\ call' = [op |-> "replace_link", description |-> description,
                link |-> link,
                new_link |-> _process_link(strip_angle(link), current_dir,
                                           xml_processor, attachment_processor,
                                           config),
                ret |-> replace_link(description, link, current_dir,
                                     xml_processor, attachment_processor,
                                     config)]
    /\ UNCHANGED <<nread, config, xml_processor, stats, attachment_processor,
                   disk, run>>

FmtNext ==
    \/ \E description \in Descriptions, link \in Targets,
          is_embedded \in BOOLEAN :
           ConvertWikilink(description, link, is_embedded)
    \/ \E description \in {d \in Descriptions : is_given(d)},
          link \in FileLinks :
           ReplaceLink(description, link, <<"ENG">>)

FmtSpec == FmtInit /\ [][FmtNext]_vars

\* a call of convert_wikilink on an internal target
InternalCall ==
    /\ call.op = "convert_wikilink"
    /\ call.link[1] \notin {"http://", "https://", "ftp://", "file://"}

\* the Markdown link '[text](<target>)'
MarkdownForm(text, target) ==
    <<"[">> \o text \o <<"]", "(", "<">> \o target \o <<">", ")">>

\* the double-bracket reference '[[target|description]]', '[[target]]'
\* without description; the bar is escaped when configured
WikiForm(target, description) ==
    <<"[", "[">> \o target
    \o (IF ~is_given(description) THEN <<>>
        ELSE (IF config.USE_ESCAPING_FOR_WIKI_LINKS THEN <<"\\">> ELSE <<>>)
             \o <<"|">> \o description)
    \o <<"]", "]">>

\* the well-formed link of a call: the form the configuration selects, the
\* target standing for a description that is not given in a Markdown link,
\* and a leading '!' when the link is embedded
WellFormed ==
    (IF call.is_embedded THEN <<"!">> ELSE <<>>)
    \o (IF config.USE_WIKI_LINKS THEN WikiForm(call.link, call.description)
        ELSE MarkdownForm(IF is_given(call.description) THEN call.description
                          ELSE call.link,
                          call.link))

\* C23: link formatting.  For an internal target convert_wikilink returns a
\* well-formed double-bracket reference when USE_WIKI_LINKS is set and a
\* well-formed Markdown link otherwise, with or without description,
\* embedded or not, an embedded one with a leading '!'; replace_link emits
\* a '#tag' or '@user' result of _process_link bare.
C23_LinkFormatting ==
    /\ InternalCall => call.ret = WellFormed
    /\ (/\ call.op = "replace_link"
        /\ call.new_link # <<>>
        /\ call.new_link[1] \in {"#", "@"}) => call.ret = call.new_link

\* the part of C23 the code keeps: every internal call but the Markdown
\* link without description that is not embedded
C23_AllButBareMarkdown ==
    (/\ InternalCall
     /\ (config.USE_WIKI_LINKS \/ is_given(call.description) \/ call.is_embedded))
    => call.ret = WellFormed

\* tags and mentions are emitted bare, every other result is formatted
C23_TagsAndMentionsBare ==
    (call.op = "replace_link" /\ call.new_link # <<>>) =>
        IF call.new_link[1] \in {"#", "@"} THEN call.ret = call.new_link
        ELSE /\ call.ret # call.new_link
             /\ call.ret[1] = "["

----------------------------------------------------------------------------
\* Further properties of the link specification.

\* the keys of the stored spaces
StoredSpaceKeys ==
    {xml_processor.spaces.map[s].key : s \in DOMAIN xml_processor.spaces.map}
        \ {<<>>}

\* the attachment rule returned a rewritten path
\* '<first component>/attachments/...'
RewrittenAttachmentPath ==
    /\ IsLinkCall
    /\ call.at = "attachment"
    /\ call.ret \notin {Raised, Fall}
    /\ call.ret # call.link
    /\ Contains(call.ret, <<"/", config.ATTACHMENTS_PATH, "/">>)
    /\ Find(call.ret, <<"/">>) = Find(call.ret, <<"/", config.ATTACHMENTS_PATH, "/">>)

\* the attachment the link names by its id
LinkedAttachment ==
    IF attachment_id_of(call.link) = NoneVal THEN NoneDict
    ELSE get_attachment_by_id(xml_processor, attachment_id_of(call.link))

\* C30: no unresolved space key in a rewritten attachment path.  Whenever
\* _process_link rewrites an attachment link to
\* '<spaceKey>/attachments/<pageId>/<name>', spaceKey is the key of a stored
\* space; no path with the text of None as first component is returned.
C30_NoUnresolvedSpaceKey ==
    RewrittenAttachmentPath =>
        /\ before_first(call.ret, <<"/">>) \in StoredSpaceKeys
        /\ before_first(call.ret, <<"/">>) # NoneText

\* the path of an attachment whose container resolves to a page of a space
\* with a key starts with that key
C30_KeyOfContainerSpace ==
    (RewrittenAttachmentPath /\ LinkedAttachment # NoneDict
       /\ get_space_key_by_page_id(xml_processor,
              LinkedAttachment.containerContent_id) # NoneText) =>
        before_first(call.ret, <<"/">>) \in StoredSpaceKeys

\* the attachment is known, its container has no space key, and the path
\* returned starts with 'None'
C30_NonePath ==
    /\ RewrittenAttachmentPath
    /\ LinkedAttachment # NoneDict
    /\ before_first(call.ret, <<"/">>) = NoneText

----------------------------------------------------------------------------

\* Further properties of the ingestion specification.

\* the IDs of the stored Page records with a title
StoredPages(title) ==
    {id \in DOMAIN xml_processor.page.map :
        /\ xml_processor.page.map[id].type = "Page"
        /\ xml_processor.page.map[id].title = title}

\* C26: de-duplication across ingestions.  After add_xml_file has ingested
\* a second file, of the Page records of one title the page store holds one
\* only, and every ID that resolved to another stored record of the title
\* is aliased to it: the version comparison spans the files.
C26_DeduplicationAcrossFiles ==
    (Ingested /\ Cardinality(xml_processor.processed_xml_files) >= 2) =>
        \A title \in {TA, TB} : Cardinality(StoredPages(title)) <= 1

\* the two files each brought a Page of title B and both are stored
C26_BothStored ==
    /\ Ingested
    /\ Cardinality(xml_processor.processed_xml_files) >= 2
    /\ Cardinality(StoredPages(TB)) = 2

\* the comments list of a stored page
CommentsOf(pid) == xml_processor.page.map[pid].comments

\* C27: no duplicate comment links.  After any sequence of add_xml_file
\* calls every comment is at most once in the comments list of a page, and
\* only in the list of the page its containerContentId names.
C27_NoDuplicateCommentLinks ==
    \A pid \in DOMAIN xml_processor.page.map :
        \A i, j \in 1..Len(CommentsOf(pid)) :
            /\ i # j => CommentsOf(pid)[i] # CommentsOf(pid)[j]
            /\ xml_processor.comments.map[CommentsOf(pid)[i]].containerContentId = pid

\* the half of C27 that holds: a comment is only in the list of the page
\* its containerContentId names
C27_OnlyInOwningPage ==
    \A pid \in DOMAIN xml_processor.page.map :
        \A i \in 1..Len(CommentsOf(pid)) :
            xml_processor.comments.map[CommentsOf(pid)[i]].containerContentId = pid

\* a second file was ingested and a comment of the first is twice in the
\* list of its page
C27_LinkedTwice ==
    /\ Ingested
    /\ Cardinality(xml_processor.processed_xml_files) = 2
    /\ \E pid \in DOMAIN xml_processor.page.map :
           Len(CommentsOf(pid)) = 2 /\ CommentsOf(pid)[1] = CommentsOf(pid)[2]

\* the values of page_id_mapping
Canonical ==
    {xml_processor.page_id_mapping[id] : id \in DOMAIN xml_processor.page_id_mapping}

\* C28: the alias table is closed and chain-free.  After any sequence of
\* add_xml_file calls every value of page_id_mapping is the ID of a record
\* of the page store and maps to itself, so that the one alias step of
\* get_page_by_id reaches the surviving record.
C28_AliasTableClosed ==
    \A id \in DOMAIN xml_processor.page_id_mapping :
        LET canonical == xml_processor.page_id_mapping[id]
        IN  /\ HasKey(xml_processor.page, canonical)
            /\ Get(xml_processor.page_id_mapping, canonical) = canonical
            /\ get_page_by_id(xml_processor, id) = xml_processor.page.map[canonical]

\* an ID is aliased to a record that is not in the page store
C28_AliasToNothing ==
    /\ Ingested
    /\ \E id \in Canonical : ~HasKey(xml_processor.page, id)

\* an index entry title -> id that names a stored page of that title
TitleEntryFresh(title, id) ==
    HasKey(xml_processor.page, id) /\ xml_processor.page.map[id].title = title

\* C29: the lookup indexes agree with the store.  After every successful
\* add_xml_file each entry t -> id of _page_by_title and (t, space) -> id of
\* _page_by_title_space names a stored page whose title is t, and each
\* entry of _space_by_key names a stored space with that key.
C29_IndexesAgreeWithStore ==
    (call.op = "add_xml_file" /\ call.ret) =>
        /\ \A t \in DOMAIN xml_processor._page_by_title :
               TitleEntryFresh(t, xml_processor._page_by_title[t])
        /\ \A k \in DOMAIN xml_processor._page_by_title_space :
               TitleEntryFresh(k[1], xml_processor._page_by_title_space[k])
        /\ \A key \in DOMAIN xml_processor._space_by_key :
               /\ HasKey(xml_processor.spaces, xml_processor._space_by_key[key])
               /\ xml_processor.spaces.map[xml_processor._space_by_key[key]].key = key

\* an entry of _page_by_title_space names a page that has another title
C29_StaleEntry ==
    /\ call.op = "add_xml_file" /\ call.ret
    /\ \E k \in DOMAIN xml_processor._page_by_title_space :
           ~TitleEntryFresh(k[1], xml_processor._page_by_title_space[k])

\* the stored pages that are the homepage of a stored space
Homepages ==
    {xml_processor.spaces.map[s].homePageId : s \in DOMAIN xml_processor.spaces.map}
    \cap DOMAIN xml_processor.page.map

\* a title index leads from a title to a stored page that carries it
LeadsToTitle(index, key, title) ==
    /\ key \in DOMAIN index
    /\ HasKey(xml_processor.page, index[key])
    /\ xml_processor.page.map[index[key]].title = title

C21_IndexLeadsToHomepage ==
    (config.UNDERSCORE_HOMEPAGE_TITLES /\ call.op = "add_xml_file") =>
        \A h \in Homepages :
            LET pg == xml_processor.page.map[h]
            IN  /\ Get(xml_processor._page_by_title, pg.title) = h
                /\ Get(xml_processor._page_by_title_space,
                       <<pg.title, pg.spaceId>>) = h

----------------------------------------------------------------------------
\* The phase specification: main from the loop over the XML files to
\* _fix_md_crosslinks, with add_xml_file taken statement by statement.  run
\* holds the list of XML files and the loop counters of main, call the
\* position in main and, inside add_xml_file, the position in its try block.

\* the export of ENG with a comment on "Safety Rules" and the bodies of the
\* comment and of the page
MainExport ==
    [LinkExport EXCEPT
        !.comments = <<[id |-> "c1", container |-> "789"]>>,
        !.bodies = <<[id |-> "b1", content |-> "c1", class |-> "Comment"],
                     [id |-> "b2", content |-> "789", class |-> "Page"]>>]

\* xml_files_to_process: the contents of the files main found.  A file that
\* does not parse has no attachments folder beside it, so that
\* process_xml_attachments returns before it reads the file.
MainFiles ==
    {<<[kind |-> "xml", root |-> MainExport]>>,
     <<[kind |-> "xml", root |-> MainExport],
       [kind |-> "xml", root |-> LinkExport2]>>,
     <<[kind |-> "xml", root |-> MainExport], Malformed>>}

\* the attachment files of the input: those of the versioned scheme
MainTrees ==
    {t \in InputTrees :
        \A p \in DOMAIN t : /\ t[p] = [size |-> 1, mtime |-> 1]
                            /\ p \in {InputPaths[i] : i \in 1..3}}

MainLinks ==
    {<<"index", ".html">>, ViewPage \o <<"789">>,
     <<"attachments", "/", "789", "/", "456", ".", "pdf">>}

\* a try block that marks the path as processed before it extracts
steps_marking_first ==
    <<"processed_xml_files", "_extract_users", "_extract_spaces",
      "_extract_pages", "_extract_comments", "_apply_body_page_relations",
      "_link_comments_to_pages", "_extract_attachments",
      "_extract_outgoing_links", "_extract_labels_and_labellings",
      "_extract_page_properties", "_build_helper_indexes",
      "_underscore_homepage_titles">>

\* the statements of the try block of add_xml_file after the parse, in the
\* order of the source
add_xml_file_steps ==
    <<"_extract_users", "_extract_spaces", "_extract_pages",
      "_extract_comments", "_apply_body_page_relations",
      "_link_comments_to_pages", "_extract_attachments",
      "_extract_outgoing_links", "_extract_labels_and_labellings",
      "_extract_page_properties", "processed_xml_files",
      "_build_helper_indexes", "_underscore_homepage_titles">>

\* the store after one statement of the try block
statement(name, x, xml_path, root, cfg) ==
    CASE name = "_extract_users" -> _extract_users(x, root)
      [] name = "_extract_spaces" -> _extract_spaces(x, root)
      [] name = "_extract_pages" -> _extract_pages(x, root, cfg)
      [] name = "_extract_comments" -> _extract_comments(x, root)
      [] name = "_apply_body_page_relations" ->
             _apply_body_page_relations(x, _extract_body_page(root)).x
      [] name = "_link_comments_to_pages" -> _link_comments_to_pages(x)
      [] name = "_extract_attachments" -> _extract_attachments(x, root, cfg)
      [] name = "_extract_outgoing_links" -> _extract_outgoing_links(x, root)
      [] name = "_extract_labels_and_labellings" ->
             _extract_labels_and_labellings(x, root)
      [] name = "_extract_page_properties" -> _extract_page_properties(x, root)
      [] name = "processed_xml_files" ->
             [x EXCEPT !.processed_xml_files = @ \cup {xml_path}]
      [] name = "_build_helper_indexes" -> _build_helper_indexes(x)
      [] name = "_underscore_homepage_titles" -> underscore_if_configured(x, cfg)

\* the counters after one statement: the body links are counted right
\* after _apply_body_page_relations
statement_stats(name, st, x, root) ==
    IF name = "_apply_body_page_relations"
    THEN LET r == _apply_body_page_relations(x, _extract_body_page(root))
         IN  increment_body_links_stats(st, r.success, r.missing)
    ELSE st

MainInit ==
    /\ nread = 0
    /\ config = DefaultConfig
    /\ xml_processor = XmlProcessorInit
    /\ stats = StatsInit
    /\ attachment_processor = AttachmentProcessorInit
    /\ disk \in MainTrees
    /\ \E files \in MainFiles :
           run = [n |-> 1, copies |-> 0, mappings |-> <<>>, subfolder |-> 1,
                  subfolders |-> Len(files), seen |-> {},
                  files |-> files, file |-> 0, links |-> 0]
    /\ call = [op |-> "xml_processing"]

\* main: add_xml_file(xml_path) is called for the next file; the call goes
\* on to the try block when the file parses and returns False when not
BeginAddXmlFile ==
    /\ call.op = "xml_processing"
    /\ run.file < Len(run.files)
    /\ LET content == run.files[run.file + 1]
           xml_path == LinkXmlPaths[run.file + 1]
       IN  IF content.kind = "xml" /\ ~already_processed(xml_processor, xml_path)
           THEN /\ call' = [op |-> "add_xml_file", step |-> 0,
                            xml_path |-> xml_path, root |-> content.root,
                            x |-> xml_processor, stats |-> stats]
                /\ UNCHANGED <<xml_processor, stats, run>>
           ELSE LET r == main_add_xml_file(xml_processor, stats, xml_path,
                                           content, config)
                IN  /\ xml_processor' = r.x
                    /\ stats' = r.stats
                    /\ run' = [run EXCEPT !.file = @ + 1]
                    /\ call' = [op |-> "xml_processing"]
    /\ UNCHANGED <<nread, config, attachment_processor, disk>>

\* the next statement of the try block
AddXmlFileStatement ==
    /\ call.op = "add_xml_file"
    /\ call.step < Len(add_xml_file_steps)
    /\ xml_processor' = statement(add_xml_file_steps[call.step + 1],
                                  xml_processor, call.xml_path, call.root, config)
    /\ stats' = statement_stats(add_xml_file_steps[call.step + 1], stats,
                                xml_processor, call.root)
    /\ call' = [call EXCEPT !.step = @ + 1]
    /\ UNCHANGED <<nread, config, attachment_processor, disk, run>>

\* add_xml_file returns True and main counts the file
EndAddXmlFile ==
    /\ call.op = "add_xml_file"
    /\ call.step = Len(add_xml_file_steps)
    /\ stats' = count_xml_file([x |-> xml_processor, stats |-> stats,
                                ret |-> TRUE]).stats
    /\ run' = [run EXCEPT !.file = @ + 1]
    /\ call' = [op |-> "xml_processing", x |-> call.x, stats |-> call.stats]
    /\ UNCHANGED <<nread, config, xml_processor, attachment_processor, disk>>

\* the loop over the XML files has ended: main goes on to "Mapping
\* Attachments" and calls process_xml_attachments for the first subfolder,
\* or for the one after a finished subfolder
MapXmlAttachments(order) ==
    /\ \/ call.op = "xml_processing" /\ run.file = Len(run.files)
       \/ call.op = "process_space_attachments" /\ run.subfolder < run.subfolders
    /\ LET subfolder == IF call.op = "process_space_attachments"
                        THEN run.subfolder + 1 ELSE run.subfolder
           content == run.files[subfolder]
           st == process_xml_attachments(
                     attachment_state(attachment_processor, disk),
                     xml_processor, config, LinkXmlPaths[subfolder],
                     IF content.kind = "xml" THEN content.root ELSE LinkExport2,
                     order)
       IN  /\ attachment_processor' = st.ap
           /\ disk' = st.files
           /\ run' = processed(run, st, subfolder)
           /\ call' = [op |-> "process_xml_attachments", checks |-> st.checks,
                       before |-> run.seen]
    /\ UNCHANGED <<nread, config, xml_processor, stats>>

\* main: process_space_attachments(space_dir) of the same subfolder
MapSpaceAttachments(order) ==
    /\ call.op = "process_xml_attachments"
    /\ ProcessSpaceAttachments(order)

\* the attachment loop has ended: the HTML files and the blog posts are
\* converted, which changes none of the tables
ConvertHtmlFiles ==
    /\ call.op = "process_space_attachments"
    /\ run.subfolder = run.subfolders
    /\ call' = [op |-> "converting"]
    /\ UNCHANGED <<nread, config, xml_processor, stats, attachment_processor,
                   disk, run>>

\* _fix_md_crosslinks: replace_link resolves the next link of a Markdown file
FixMdCrosslinks(link, current_dir) ==
    /\ call.op \in {"converting", "_process_link"}
    /\ run.links < MaxLinks
    /\ LinkProcessed(process_link_at(link, current_dir, xml_processor,
                                     attachment_processor, config),
                     link, current_dir)
    /\ run' = [run EXCEPT !.links = @ + 1]
    /\ UNCHANGED <<nread, config, xml_processor, stats, attachment_processor,
                   disk>>

MainNext ==
    \/ BeginAddXmlFile
    \/ AddXmlFileStatement
    \/ EndAddXmlFile
    \/ \E order \in ListingOrders : MapXmlAttachments(order)
    \/ \E order \in ListingOrders : MapSpaceAttachments(order)
    \/ ConvertHtmlFiles
    \/ \E link \in MainLinks : FixMdCrosslinks(link, <<"ENG">>)

MainSpec == MainInit /\ [][MainNext]_vars

----------------------------------------------------------------------------
\* Properties of the phase specification.

InAddXmlFile == call.op = "add_xml_file"

\* the statement add_xml_file executes next
NextStatement ==
    IF InAddXmlFile /\ call.step < Len(add_xml_file_steps)
    THEN add_xml_file_steps[call.step + 1] ELSE "none"

ExtractionStatements ==
    {"_extract_users", "_extract_spaces", "_extract_pages", "_extract_comments",
     "_apply_body_page_relations", "_link_comments_to_pages",
     "_extract_attachments", "_extract_outgoing_links",
     "_extract_labels_and_labellings", "_extract_page_properties"}

\* the statements add_xml_file has executed
Executed == {add_xml_file_steps[i] : i \in 1..call.step}

\* every Comment object of the file is in the comment store
CommentsExtracted ==
    \A i \in 1..Len(call.root.comments) :
        call.root.comments[i].id # "" =>
            HasKey(xml_processor.comments, call.root.comments[i].id)

\* every stored comment on a stored page is in the comments list of the page
CommentsLinked ==
    \A cid \in DOMAIN xml_processor.comments.map :
        LET container == xml_processor.comments.map[cid].containerContentId
        IN  HasKey(xml_processor.page, container) =>
                \E i \in 1..Len(xml_processor.page.map[container].comments) :
                    xml_processor.page.map[container].comments[i] = cid

\* every Attachment object of the file is in the attachment store
AttachmentsExtracted ==
    \A i \in 1..Len(call.root.attachments) :
        call.root.attachments[i].id # "" =>
            HasKey(xml_processor.attachments, call.root.attachments[i].id)

\* the attachment phase has mapped or copied a file
AttachmentMapped ==
    attachment_processor.file_mapping # EmptyDict \/ run.copies > 0

\* every add_xml_file call of main has returned
IngestionDone ==
    /\ run.file = Len(run.files)
    /\ stats.processed = Len(run.files)
    /\ ~InAddXmlFile

\* the attachment loop of main has ended
MappingDone ==
    /\ call.op \in {"process_space_attachments", "converting", "_process_link"}
    /\ run.subfolder = run.subfolders

\* the order of main's phases: a step that maps or copies an attachment
\* starts after the last add_xml_file returned, and a step that resolves a
\* link starts after the attachment loop ended and changes no mapping
PhaseStep ==
    /\ (attachment_processor' # attachment_processor \/ disk' # disk
        \/ run'.copies # run.copies) => IngestionDone
    /\ call'.op \in {"process_xml_attachments", "process_space_attachments"} =>
           IngestionDone
    /\ (call'.op = "_process_link" /\ run'.links # run.links) =>
           /\ MappingDone
           /\ IngestionDone
           /\ attachment_processor' = attachment_processor

\* the order inside add_xml_file, on the store
StatementOrder ==
    /\ NextStatement = "_apply_body_page_relations" => CommentsExtracted
    /\ NextStatement = "_extract_attachments" =>
           CommentsExtracted /\ CommentsLinked
    /\ (InAddXmlFile /\ call.xml_path \in xml_processor.processed_xml_files) =>
           /\ ExtractionStatements \subseteq Executed
           /\ CommentsExtracted /\ CommentsLinked /\ AttachmentsExtracted
    /\ (InAddXmlFile /\ "_extract_attachments" \in Executed) =>
           "_link_comments_to_pages" \in Executed
    /\ (InAddXmlFile /\ "_apply_body_page_relations" \in Executed) =>
           "_extract_comments" \in Executed

\* a file that does not parse is not marked processed
FailedNotMarked ==
    \A i \in 1..run.file :
        run.files[i].kind # "xml" =>
            LinkXmlPaths[i] \notin xml_processor.processed_xml_files

\* C25: phase ordering.  In main every add_xml_file call has returned
\* before the first attachment is mapped or copied, and the attachment
\* mapping of every space has finished before _fix_md_crosslinks resolves
\* the first link; inside one add_xml_file the body relations are applied
\* after the comments were extracted, the comments are linked to their
\* pages before the attachments are extracted, and the path is marked
\* processed only after every extraction statement has run.
C25_PhaseOrdering ==
    /\ [][PhaseStep]_vars
    /\ [](AttachmentMapped => IngestionDone)
    /\ [](call.op = "_process_link" => MappingDone)
    /\ [](StatementOrder /\ FailedNotMarked)

\* C25's case: two files were ingested, an attachment was mapped and
\* copied, and a link was resolved with the finished mapping
C25_Witness ==
    /\ call.op = "_process_link"
    /\ run.links > 0
    /\ run.copies > 0
    /\ attachment_processor.file_mapping # EmptyDict
    /\ stats.success = 2
    /\ Cardinality(xml_processor.processed_xml_files) = 2
    /\ \E pid \in DOMAIN xml_processor.page.map :
           xml_processor.page.map[pid].comments # <<>>

\* add_xml_file taken statement by statement ends with the store and the
\* counters of the call taken as a whole
MainStepsAgree ==
    (InAddXmlFile /\ call.step = Len(add_xml_file_steps)) =>
        LET r == add_xml_file(call.x, call.stats, call.xml_path,
                              [kind |-> "xml", root |-> call.root], config)
        IN  r.x = xml_processor /\ r.stats = stats

====
